---- MODULE Spec2Model ----
(***************************************************************************)
(* Verification model of the LLM ensemble backend: the TTL cache and the   *)
(* sliding-window rate limiter (app/utils/cache.py), the circuit breaker   *)
(* and the time-travel snapshot fan-out                                    *)
(* (app/services/time_travel_service_optimized.py) and the provider        *)
(* orchestrator (app/services/llm_service.py).                             *)
(*                                                                         *)
(* Each component has its own specification over the shared variables; a   *)
(* specification leaves the variables of the other components unchanged.   *)
(* time.time() is the integer clock `now`.  An optional value (Python's    *)
(* None or a value) is a sequence of length 0 or 1.  The hit/miss/set      *)
(* counters of CacheManager._stats are write-only statistics and are left  *)
(* out.                                                                    *)
(***************************************************************************)
EXTENDS Integers, Sequences, FiniteSets, TLC

VARIABLES
    now,          \* time.time()
    default_ttl,  \* CacheManager.default_ttl
    cache,        \* CacheManager._cache: key -> CacheEntry (present keys only)
    cacheObs,     \* what the callers of CacheManager saw: last set and last get
    max_requests, \* RateLimiter.max_requests
    window_seconds, \* RateLimiter.window_seconds
    clients,      \* RateLimiter._clients: client id -> RateLimitEntry.requests
    rlObs,        \* what the callers of RateLimiter saw: admissions and last call
    cb,           \* OptimizedOpenAIClient.circuit_breaker (CircuitBreaker fields)
    inflight,     \* chat_completion calls admitted and awaiting the upstream
    cbObs,        \* what the callers of the breaker saw
    llm,          \* LLMService: client set?, settings.cache_enabled
    scope,        \* what the environment of LLMService does in this run
    heap,         \* the ModelResponse objects that are shared: id -> fields
    req,          \* the running call_models_parallel call (None when idle)
    tasks,        \* its call_model coroutines, one per entry of models
    fan,          \* what its caller saw: completion order, returned list
    sem,          \* free permits of OptimizedTimeTravelService._api_semaphore
    snaps,        \* the generate_snapshot_parallel coroutines of the running call
    tt,           \* generate_all_snapshots_parallel: time points, order, result
    ttr,          \* the running time-travel request: position, locals, outcome
    ttcache,      \* the services' _cache: (service, question) -> (result, cached_at)
    tts,          \* what Settings holds for the time-travel services
    ttreqs,       \* the in-flight requests of optimized_time_travel_service:
                  \* position and outbound calls of each
    stream,       \* the running /time-travel-stream response: generator
                  \* position, snapshot tasks, events yielded
    rq,           \* the running API request (ensemble_query, route_and_answer,
                  \* synthesize_responses): position, locals, outcome
    ccache,       \* router_service._classification_cache: key -> (classification, timestamp)
    pre           \* route_and_answer before its fan-out: position, locals of
                  \* temporal detection, classification and search

cacheVars == <<default_ttl, cache, cacheObs>>
rlVars == <<max_requests, window_seconds, clients, rlObs>>
cbVars == <<cb, inflight, cbObs>>
llmVars == <<llm, scope, heap, req, tasks, fan>>
fanoutVars == <<sem, snaps, tt>>
streamVars == <<ttreqs, stream>>
ttrVars == <<ttr, ttcache, tts, streamVars>>
ttVars == <<fanoutVars, ttrVars>>
rqVars == <<rq>>
clsVars == <<ccache, pre>>
vars == <<now, cacheVars, rlVars, cbVars, llmVars, ttVars, rqVars, clsVars>>

None == <<>>
Some(v) == <<v>>

\* ------------------------------------------------------------------ bounds
MaxTime == 4      \* the clock of the cache specification
MaxTtl == 2       \* largest ttl / default_ttl drawn
RLMaxTime == 3    \* the clock of the rate limiter specification
MaxWin == 2       \* largest window_seconds drawn
MaxReq == 2       \* largest max_requests drawn
MaxInflight == 4  \* concurrent chat_completion calls
CBMaxTime == 33   \* the clock of the circuit breaker specification
MaxProviders == 2 \* longest list of models passed to call_models_parallel
MaxPoints == 2    \* longest list of time points passed to generate_all_snapshots_parallel
MaxOverride == 2  \* longest list of models a request names
MaxWords == 2     \* longest question, in words, passed to detect_temporal_query
ClsMaxTime == 25  \* the clock, in hours, of the classification specification
MaxSnapshots == 3 \* largest time_travel_max_snapshots drawn
TtMaxTime == 25   \* the clock, in hours, of the time-travel cache specification
MaxRounds == 2    \* call_models_parallel calls made one after the other
LLMMaxTime == 3   \* the clock of the orchestrator specification

Keys == {"k1", "k2"}
Values == {"v1", "v2"}
Clients == {"c1", "c2"}

\* ------------------------------------------------------- CacheManager
\* CacheEntry.is_expired at time t
is_expired_AtTtl(entry, t) == t - entry.created_at >= entry.ttl
is_expired(entry, t) == t - entry.created_at > entry.ttl

\* The ttl stored by CacheManager.set: `ttl or self.default_ttl`; a ttl that
\* is None or 0 is falsy in Python.
StoredTtl(ttl, dflt) == IF ttl = None \/ ttl[1] = 0 THEN dflt ELSE ttl[1]

RemoveKey(store, k) == [x \in (DOMAIN store) \ {k} |-> store[x]]

\* CacheManager.get: the value returned (None when absent or expired)
GetLive(store, k, t) ==
    IF k \notin DOMAIN store THEN None
    ELSE IF is_expired(store[k], t) THEN None
    ELSE Some(store[k].value)

\* CacheManager.get: the store it leaves (an expired entry is deleted)
StoreAfterGet(store, k, t) ==
    IF k \in DOMAIN store /\ is_expired(store[k], t) THEN RemoveKey(store, k) ELSE store

\* CacheManager.set: the store it leaves
StoreAfterSet(store, k, v, ttl, dflt, t) ==
    [x \in (DOMAIN store) \cup {k} |->
        IF x = k THEN [value |-> v, created_at |-> t, ttl |-> StoredTtl(ttl, dflt)]
        ELSE store[x]]

CacheInit ==
    /\ default_ttl \in 0..MaxTtl
    /\ cache = << >>
    /\ cacheObs = [set |-> << >>, get |-> None]

CacheIdle ==
    /\ default_ttl = 0
    /\ cache = << >>
    /\ cacheObs = [set |-> << >>, get |-> None]

\* cache.set(k, v, ttl) by some caller; cacheObs.set[k] keeps the arguments
\* and the time of the latest set of k.
CacheSet(k, v, ttl) ==
    /\ cache' = StoreAfterSet(cache, k, v, ttl, default_ttl, now)
    /\ cacheObs' = [cacheObs EXCEPT
          !.set = [x \in (DOMAIN cacheObs.set) \cup {k} |->
                     IF x = k THEN [value |-> v, ttl |-> ttl, at |-> now]
                     ELSE cacheObs.set[x]]]
    /\ UNCHANGED <<clsVars, rqVars, ttVars, now, default_ttl, rlVars, cbVars, llmVars>>

\* cache.get(k) by some caller; cacheObs.get keeps the key, the result, the
\* time, whether the entry was still stored afterwards, and the latest set
\* of k that preceded the get.
CacheGet(k) ==
    LET res == GetLive(cache, k, now) IN
    /\ cache' = StoreAfterGet(cache, k, now)
    /\ cacheObs' = [cacheObs EXCEPT
          !.get = Some([key |-> k, result |-> res, at |-> now,
                        stored |-> k \in DOMAIN cache',
                        set |-> IF k \in DOMAIN cacheObs.set
                                THEN Some(cacheObs.set[k]) ELSE None])]
    /\ UNCHANGED <<clsVars, rqVars, ttVars, now, default_ttl, rlVars, cbVars, llmVars>>

CacheTick ==
    /\ now < MaxTime
    /\ now' = now + 1
    /\ UNCHANGED <<clsVars, rqVars, ttVars, cacheVars, rlVars, cbVars, llmVars>>

CacheNext ==
    \/ \E k \in Keys, v \in Values, ttl \in {None} \cup {Some(n) : n \in 0..MaxTtl} :
          CacheSet(k, v, ttl)
    \/ \E k \in Keys : CacheGet(k)
    \/ CacheTick

\* ------------------------------------------------------- RateLimiter
\* RateLimitEntry.cleanup(window) at time t
cleanup(requests, window, t) ==
    SelectSeq(requests, LAMBDA ts : ts > t - window)

\* RateLimiter.is_allowed: the decision on the pruned entry
Admits(requests, maxreq) == ~(Len(requests) >= maxreq)

\* RateLimiter.is_allowed: the entry it leaves
EntryAfterIsAllowed_CountsRejected(requests, window, maxreq, t) ==
    Append(cleanup(requests, window, t), t)
EntryAfterIsAllowed(requests, window, maxreq, t) ==
    LET pruned == cleanup(requests, window, t) IN
    IF Admits(pruned, maxreq) THEN Append(pruned, t) ELSE pruned

RequestsOf(c) == IF c \in DOMAIN clients THEN clients[c] ELSE << >>

RLInit ==
    /\ max_requests \in 1..MaxReq
    /\ window_seconds \in 1..MaxWin
    /\ clients = << >>
    /\ rlObs = [admitted |-> [c \in Clients |-> << >>], last |-> None]

RLIdle ==
    /\ max_requests = 1
    /\ window_seconds = 1
    /\ clients = << >>
    /\ rlObs = [admitted |-> [c \in Clients |-> << >>], last |-> None]

\* rate_limiter.is_allowed(c); rlObs.admitted[c] lists the times of all the
\* calls of c that returned True, rlObs.last the latest call.
is_allowed(c) ==
    LET pruned == cleanup(RequestsOf(c), window_seconds, now)
        ok == Admits(pruned, max_requests)
    IN
    /\ clients' = [x \in (DOMAIN clients) \cup {c} |->
                      IF x = c
                      THEN EntryAfterIsAllowed(RequestsOf(c), window_seconds, max_requests, now)
                      ELSE clients[x]]
    /\ rlObs' = [admitted |-> [rlObs.admitted EXCEPT ![c] = IF ok THEN Append(@, now) ELSE @],
                 last |-> Some([client |-> c, result |-> ok, at |-> now])]
    /\ UNCHANGED <<clsVars, rqVars, ttVars, now, max_requests, window_seconds, cacheVars, cbVars, llmVars>>

RLTick ==
    /\ now < RLMaxTime
    /\ now' = now + 1
    /\ UNCHANGED <<clsVars, rqVars, ttVars, cacheVars, rlVars, cbVars, llmVars>>

RLNext ==
    \/ \E c \in Clients : is_allowed(c)
    \/ RLTick

Max(a, b) == IF a >= b THEN a ELSE b
MinOf(requests) ==
    CHOOSE m \in {requests[i] : i \in DOMAIN requests} :
        \A i \in DOMAIN requests : m <= requests[i]

\* The store after entry.cleanup(window) on the entry of a client that has one
ClientsAfterCleanup(cl, c, window, t) ==
    IF c \in DOMAIN cl THEN [cl EXCEPT ![c] = cleanup(@, window, t)] ELSE cl

\* RateLimiter.reset: the store it leaves
ClientsAfterReset_Clear(cl, c) == << >>
ClientsAfterReset(cl, c) == IF c \in DOMAIN cl THEN RemoveKey(cl, c) ELSE cl

\* RateLimiter.get_retry_after: the value returned
RetryAfter(c) ==
    LET pruned == cleanup(RequestsOf(c), window_seconds, now) IN
    IF c \notin DOMAIN clients \/ pruned = << >> THEN 0
    ELSE Max(0, window_seconds - (now - MinOf(pruned)))

\* RateLimiter.get_remaining: the value returned
Remaining(c) ==
    IF c \notin DOMAIN clients THEN max_requests
    ELSE Max(0, max_requests - Len(cleanup(RequestsOf(c), window_seconds, now)))

\* rate_limiter.get_retry_after(c) returns RetryAfter(c); the entry of c, if
\* it has one, is pruned
get_retry_after(c) ==
    /\ clients' = ClientsAfterCleanup(clients, c, window_seconds, now)
    /\ UNCHANGED <<clsVars, rqVars, ttVars, now, max_requests, window_seconds, rlObs, cacheVars, cbVars, llmVars>>

\* rate_limiter.get_remaining(c) returns Remaining(c); the entry of c, if it
\* has one, is pruned
get_remaining(c) ==
    /\ clients' = ClientsAfterCleanup(clients, c, window_seconds, now)
    /\ UNCHANGED <<clsVars, rqVars, ttVars, now, max_requests, window_seconds, rlObs, cacheVars, cbVars, llmVars>>

\* rate_limiter.reset(c); rlObs.admitted[c] starts again (the admissions
\* since the latest reset of c)
reset(c) ==
    /\ clients' = ClientsAfterReset(clients, c)
    /\ rlObs' = [rlObs EXCEPT !.admitted[c] = << >>]
    /\ UNCHANGED <<clsVars, rqVars, ttVars, now, max_requests, window_seconds, cacheVars, cbVars, llmVars>>

\* Every operation of the rate limiter, by any client, in any order
RLOpsNext ==
    \/ \E c \in Clients : is_allowed(c)
    \/ \E c \in Clients : get_retry_after(c)
    \/ \E c \in Clients : get_remaining(c)
    \/ \E c \in Clients : reset(c)
    \/ RLTick

\* ------------------------------------------------------- CircuitBreaker
failure_threshold == 5
recovery_timeout == 30
half_open_max_calls == 3

CLOSED == "closed"
OPEN == "open"
HALF_OPEN == "half_open"

\* CircuitBreaker(name="openai_api") as constructed
NewBreaker ==
    [state |-> CLOSED, failure_count |-> 0, last_failure_time |-> None,
     half_open_calls |-> 0]

\* The `state` property read at time t: the breaker it leaves (an open
\* breaker whose recovery timeout has elapsed becomes half-open).
state_EarlyRecovery(b, t) ==
    IF b.state = OPEN /\ b.last_failure_time # None
       /\ t - b.last_failure_time[1] >= recovery_timeout
    THEN [b EXCEPT !.state = HALF_OPEN, !.half_open_calls = 0]
    ELSE b
state(b, t) ==
    IF b.state = OPEN /\ b.last_failure_time # None
       /\ t - b.last_failure_time[1] > recovery_timeout
    THEN [b EXCEPT !.state = HALF_OPEN, !.half_open_calls = 0]
    ELSE b

\* CircuitBreaker.record_success
record_success(b) ==
    IF b.state = HALF_OPEN
    THEN IF b.half_open_calls + 1 >= half_open_max_calls
         THEN [b EXCEPT !.half_open_calls = @ + 1, !.state = CLOSED, !.failure_count = 0]
         ELSE [b EXCEPT !.half_open_calls = @ + 1]
    ELSE [b EXCEPT !.failure_count = 0]

\* CircuitBreaker.record_failure at time t
record_failure(b, t) ==
    LET c == [b EXCEPT !.failure_count = @ + 1, !.last_failure_time = Some(t)] IN
    IF c.failure_count >= failure_threshold THEN [c EXCEPT !.state = OPEN] ELSE c

\* CircuitBreaker.can_execute at time t: the value returned
can_execute(b, t) ==
    LET s == state(b, t) IN
    IF s.state = CLOSED THEN TRUE
    ELSE IF s.state = HALF_OPEN THEN s.half_open_calls < half_open_max_calls
    ELSE FALSE

CBInit ==
    /\ cb = NewBreaker
    /\ inflight = 0
    /\ cbObs = [tripped |-> None, call |-> None, probes |-> 0, record |-> None, run |-> 0]

\* What the callers saw, after a record_success / record_failure that took
\* the breaker from b to c at time t:
\*   tripped  the time of the latest failure that opened a breaker not open
\*   call     the latest can_execute call: its result, whether it was made
\*            within recovery_timeout of `tripped`, and the record_* call
\*            that preceded it
\*   probes   calls admitted since the breaker became half-open (0 otherwise)
\*   record   the latest record_* call, with the state before and after it
\*   run      consecutive record_success calls made on a half-open breaker
ObsAfterRecord(op, b, c, t) ==
    [cbObs EXCEPT
       !.tripped = IF b.state # OPEN /\ c.state = OPEN THEN Some(t) ELSE @,
       !.probes = IF c.state = HALF_OPEN THEN @ ELSE 0,
       !.record = Some([op |-> op, before |-> b.state, after |-> c.state]),
       !.run = IF op = "record_success" /\ b.state = HALF_OPEN THEN @ + 1 ELSE 0]

\* OptimizedOpenAIClient.chat_completion up to the upstream call: the breaker
\* is consulted; a refused call raises, an admitted call awaits the upstream.
ChatBegin ==
    LET ok == can_execute(cb, now)
        c == state(cb, now)
    IN
    /\ ok => inflight < MaxInflight
    /\ cb' = c
    /\ inflight' = IF ok THEN inflight + 1 ELSE inflight
    /\ cbObs' = [cbObs EXCEPT
          !.call = Some([result |-> ok,
                         cooling |-> cbObs.tripped # None
                                     /\ now - cbObs.tripped[1] <= recovery_timeout,
                         after |-> cbObs.record]),
          !.probes = IF c.state = HALF_OPEN
                     THEN (IF cb.state = HALF_OPEN THEN @ ELSE 0) + (IF ok THEN 1 ELSE 0)
                     ELSE 0,
          !.run = IF cb.state = HALF_OPEN THEN @ ELSE 0]
    /\ UNCHANGED <<clsVars, rqVars, ttVars, now, cacheVars, rlVars, llmVars>>

\* chat_completion after the upstream call returned: record_success()
ChatSuccess ==
    /\ inflight > 0
    /\ inflight' = inflight - 1
    /\ cb' = record_success(cb)
    /\ cbObs' = ObsAfterRecord("record_success", cb, cb', now)
    /\ UNCHANGED <<clsVars, rqVars, ttVars, now, cacheVars, rlVars, llmVars>>

\* chat_completion after the upstream call raised or timed out:
\* record_failure(), then the exception is re-raised
ChatFailure ==
    /\ inflight > 0
    /\ inflight' = inflight - 1
    /\ cb' = record_failure(cb, now)
    /\ cbObs' = ObsAfterRecord("record_failure", cb, cb', now)
    /\ UNCHANGED <<clsVars, rqVars, ttVars, now, cacheVars, rlVars, llmVars>>

CBTick ==
    /\ now < CBMaxTime
    /\ now' = now + 1
    /\ UNCHANGED <<clsVars, rqVars, ttVars, cacheVars, rlVars, cbVars, llmVars>>

CBNext ==
    \/ ChatBegin
    \/ ChatSuccess
    \/ ChatFailure
    \/ CBTick

CBIdle ==
    /\ cb = NewBreaker
    /\ inflight = 0
    /\ cbObs = [tripped |-> None, call |-> None, probes |-> 0, record |-> None, run |-> 0]

\* ------------------------------------------------------- LLMService
max_retries == 3

Models == {"gpt-4o", "gpt-4o-mini"}
Questions == {"q1", "q2"}
Payloads == {"text1"}  \* response text with its token counts and cost
Failures == {"timeout", "rate_limit", "api_error", "malformed"}

\* cache_manager.generate_key(model, question, max_tokens, temperature): a
\* SHA-256 digest of the arguments, taken as injective; max_tokens and
\* temperature are the same in every call modelled.
generate_key(model, question) == <<model, question>>

\* The last_error text set by the except clause that handles the failure kind
ErrorMessage(kind) ==
    CASE kind = "timeout" -> "Request timed out"
      [] kind = "rate_limit" -> "Rate limit exceeded"
      [] kind = "api_error" -> "API error"
      [] kind = "malformed" -> "Unexpected error"
      [] kind = "no_client" -> "Unexpected error: OpenAI client not initialized"

\* The ModelResponse built after a successful attempt
SuccessResponse(model, payload, t0) ==
    [model_name |-> model, payload |-> payload, timestamp |-> t0,
     cache_status |-> "miss", success |-> TRUE, error |-> None]

\* The ModelResponse built when all retries failed, and the one
\* call_models_parallel builds from an exception
FailedResponse(model, t0, error) ==
    [model_name |-> model, payload |-> "", timestamp |-> t0,
     cache_status |-> "miss", success |-> FALSE, error |-> error]

\* A call_model coroutine: pc, attempt, last_error and t0 (the time of entry,
\* `timestamp`) are its position and locals, out what it returned or raised;
\* net counts its completion calls, lastOut is the outcome of its latest
\* attempt, seen the payload of the live entry its lookup met (None without
\* one), wrote whether it stored its response in the cache.
NewTask ==
    [pc |-> "start", attempt |-> 0, last_error |-> None, t0 |-> 0, net |-> 0,
     out |-> None, lastOut |-> None, seen |-> None, wrote |-> FALSE]

\* The id of a new object, and the objects still referenced once the caller
\* of the previous call_models_parallel has dropped its result list: those
\* the cache holds
NewId == CHOOSE n \in 1..(Cardinality(DOMAIN heap) + 1) : n \notin DOMAIN heap
Referenced == {cache[k].value : k \in DOMAIN cache}

\* call_model returns a response (ref: its id in heap, 0 for a response
\* that is not shared; resp: its fields at the time of return)
Returned(t, ref, resp) ==
    [t EXCEPT !.pc = "done", !.out = Some([kind |-> "response", ref |-> ref, resp |-> resp])]

\* The retry loop is left with every attempt failed
AllRetriesFailed(t, model) == Returned(t, 0, FailedResponse(model, t.t0, t.last_error))

\* `for attempt in range(max_retries)`: is there an attempt after this one?
HasNextAttempt_OneMore(attempt) == attempt < max_retries
HasNextAttempt(attempt) == attempt < max_retries - 1

\* The except clauses: last_error is set; a rate-limit error sleeps
\* 2 ** attempt, every failure but the last attempt's sleeps 1 second.
AfterFailure(t, kind, model) ==
    LET u == [t EXCEPT !.last_error = Some(ErrorMessage(kind)), !.lastOut = Some(kind)] IN
    IF kind = "rate_limit" \/ HasNextAttempt(t.attempt)
    THEN [u EXCEPT !.pc = "sleep"]
    ELSE AllRetriesFailed(u, model)

\* The head of the try block: without a client the attempt raises ValueError
\* (handled as an unexpected error), otherwise the completion call is awaited.
BeginAttempt(t, model) ==
    IF ~llm.client THEN AfterFailure(t, "no_client", model)
    ELSE [t EXCEPT !.pc = "net", !.net = @ + 1]

\* `if use_cache and self.settings.cache_enabled`
Caching(use_cache) == use_cache /\ llm.cache_enabled

\* The store after a successful attempt built the response heap[id]
StoreAfterSuccess_Always(store, k, id, use_cache, t) ==
    StoreAfterSet(store, k, id, None, default_ttl, t)
StoreAfterSuccess(store, k, id, use_cache, t) ==
    IF Caching(use_cache) THEN StoreAfterSet(store, k, id, None, default_ttl, t) ELSE store

\* A cache hit: the cached object gets this call's timestamp and status HIT
HitObject(obj, t) == [obj EXCEPT !.timestamp = t, !.cache_status = "hit"]

\* call_models_parallel: one slot of the returned list, from what
\* asyncio.gather(return_exceptions=True) holds for the i-th coroutine
SlotResult(model, out) ==
    IF out.kind = "exception"
    THEN [ref |-> 0, resp |-> FailedResponse(model, now, Some(out.msg))]
    ELSE [ref |-> out.ref, resp |-> out.resp]

\* asyncio.gather returns once every coroutine has finished
GatherReady(ts) == \A i \in DOMAIN ts : ts[i].pc = "done"

\* asyncio.gather(*tasks, return_exceptions=True) over the outcomes: an
\* exception raised by a coroutine is kept as its result, nothing is raised
gather_Propagate(outs) ==
    IF \E i \in DOMAIN outs : outs[i].kind = "exception"
    THEN [raised |-> TRUE, results |-> << >>]
    ELSE [raised |-> FALSE, results |-> outs]
gather(outs) == [raised |-> FALSE, results |-> outs]

\* The list gather returns is in the order of the coroutines passed
GatherOrder_Completion(n, order) == order
GatherOrder(n, order) == [i \in 1..n |-> i]

\* One call_model at a time, called again and again while the clock runs
CallScope ==
    [lists |-> [1..1 -> Models], rounds |-> MaxRounds, clock |-> LLMMaxTime,
     failures |-> Failures, payloads |-> Payloads, questions |-> Questions,
     points |-> {}]

\* One call_models_parallel over up to MaxProviders models
FanScope ==
    [lists |-> UNION {[1..n -> Models] : n \in 1..MaxProviders}, rounds |-> 1,
     clock |-> 1, failures |-> {"timeout", "api_error"}, payloads |-> Payloads,
     questions |-> {"q1"}, points |-> {}]

LLMInit(sc) ==
    /\ llm \in [client : BOOLEAN, cache_enabled : BOOLEAN]
    /\ scope = sc
    /\ heap = << >>
    /\ req = None
    /\ tasks = << >>
    /\ fan = [order |-> << >>, results |-> None, rounds |-> 0]

LLMIdle ==
    /\ llm = [client |-> FALSE, cache_enabled |-> FALSE]
    /\ scope = None
    /\ heap = << >>
    /\ req = None
    /\ tasks = << >>
    /\ fan = [order |-> << >>, results |-> None, rounds |-> 0]

\* fan.order after the task that was t becomes u
OrderAfter(i, u) == IF u.pc = "done" THEN Append(fan.order, i) ELSE fan.order

\* call_models_parallel(models, question, use_cache=...) is entered: the
\* coroutines are created and handed to asyncio.gather
CallModelsParallel(models, question, use_cache) ==
    /\ req = None \/ fan.results # None
    /\ fan.rounds < scope.rounds
    /\ req' = Some([models |-> models, question |-> question, use_cache |-> use_cache])
    /\ tasks' = [i \in 1..Len(models) |-> NewTask]
    /\ fan' = [order |-> << >>, results |-> None, rounds |-> fan.rounds + 1]
    /\ heap' = [id \in Referenced |-> heap[id]]
    /\ UNCHANGED <<clsVars, rqVars, ttVars, now, cacheVars, rlVars, cbVars, llm, scope>>

\* call_model from its entry to its first await (or its return): the cache
\* lookup, then the first attempt
CallModelStart(i) ==
    LET r == req[1]
        model == r.models[i]
        k == generate_key(model, r.question)
        t == [tasks[i] EXCEPT !.t0 = now, !.seen =
                 IF k \in DOMAIN cache /\ now - cache[k].created_at <= cache[k].ttl
                 THEN Some(heap[cache[k].value].payload) ELSE None]
        hit == IF Caching(r.use_cache) THEN GetLive(cache, k, now) ELSE None
        u == IF hit # None
             THEN Returned(t, hit[1], HitObject(heap[hit[1]], now))
             ELSE BeginAttempt(t, model)
    IN
    /\ req # None /\ i \in DOMAIN tasks /\ tasks[i].pc = "start"
    /\ cache' = IF Caching(r.use_cache) THEN StoreAfterGet(cache, k, now) ELSE cache
    /\ heap' = IF hit # None THEN [heap EXCEPT ![hit[1]] = HitObject(@, now)] ELSE heap
    /\ tasks' = [tasks EXCEPT ![i] = u]
    /\ fan' = [fan EXCEPT !.order = OrderAfter(i, u)]
    /\ UNCHANGED <<clsVars, rqVars, ttVars, now, default_ttl, cacheObs, rlVars, cbVars, llm, scope, req>>

\* The awaited completion call returns a well-formed response: the
\* ModelResponse is built, cached and returned
AttemptSucceeds(i, payload) ==
    LET r == req[1]
        model == r.models[i]
        k == generate_key(model, r.question)
        id == NewId
        resp == SuccessResponse(model, payload, tasks[i].t0)
        u == Returned([tasks[i] EXCEPT !.lastOut = Some("ok")], id, resp)
    IN
    /\ req # None /\ i \in DOMAIN tasks /\ tasks[i].pc = "net"
    /\ heap' = [x \in (DOMAIN heap) \cup {id} |-> IF x = id THEN resp ELSE heap[x]]
    /\ cache' = StoreAfterSuccess(cache, k, id, r.use_cache, now)
    /\ tasks' = [tasks EXCEPT ![i] = [u EXCEPT !.wrote =
                    k \in DOMAIN cache' /\ cache'[k].value = id]]
    /\ fan' = [fan EXCEPT !.order = OrderAfter(i, u)]
    /\ UNCHANGED <<clsVars, rqVars, ttVars, now, default_ttl, cacheObs, rlVars, cbVars, llm, scope, req>>

\* The awaited completion call times out, raises RateLimitError or APIError,
\* or returns a response that cannot be read
AttemptFails(i, kind) ==
    LET u == AfterFailure(tasks[i], kind, req[1].models[i]) IN
    /\ req # None /\ i \in DOMAIN tasks /\ tasks[i].pc = "net"
    /\ tasks' = [tasks EXCEPT ![i] = u]
    /\ fan' = [fan EXCEPT !.order = OrderAfter(i, u)]
    /\ UNCHANGED <<clsVars, rqVars, ttVars, now, cacheVars, rlVars, cbVars, llm, scope, heap, req>>

\* asyncio.sleep returns: the next attempt starts, or the loop is over
SleepReturns(i) ==
    LET t == tasks[i]
        model == req[1].models[i]
        u == IF HasNextAttempt(t.attempt)
             THEN BeginAttempt([t EXCEPT !.attempt = @ + 1], model)
             ELSE AllRetriesFailed(t, model)
    IN
    /\ req # None /\ i \in DOMAIN tasks /\ t.pc = "sleep"
    /\ tasks' = [tasks EXCEPT ![i] = u]
    /\ fan' = [fan EXCEPT !.order = OrderAfter(i, u)]
    /\ UNCHANGED <<clsVars, rqVars, ttVars, now, cacheVars, rlVars, cbVars, llm, scope, heap, req>>

\* An exception escapes call_model before its retry loop (nothing in lines
\* 63-76 is guarded); gather keeps it as the coroutine's result
CallModelRaises(i) ==
    LET u == [tasks[i] EXCEPT !.pc = "done", !.t0 = now,
                 !.out = Some([kind |-> "exception", msg |-> "raised"])] IN
    /\ req # None /\ i \in DOMAIN tasks /\ tasks[i].pc = "start"
    /\ tasks' = [tasks EXCEPT ![i] = u]
    /\ fan' = [fan EXCEPT !.order = OrderAfter(i, u)]
    /\ UNCHANGED <<clsVars, rqVars, ttVars, now, cacheVars, rlVars, cbVars, llm, scope, heap, req>>

\* asyncio.gather returns and call_models_parallel builds its result list
\* (fan.results: whether the call raised, and the list it returned)
GatherReturns ==
    LET models == req[1].models
        ord == GatherOrder(Len(models), fan.order)
        g == gather([i \in 1..Len(models) |-> tasks[ord[i]].out[1]])
    IN
    /\ req # None /\ fan.results = None
    /\ GatherReady(tasks)
    /\ fan' = [fan EXCEPT !.results =
                  Some([raised |-> g.raised,
                        list |-> [i \in DOMAIN g.results |->
                                     SlotResult(models[i], g.results[i])]])]
    /\ UNCHANGED <<clsVars, rqVars, ttVars, now, cacheVars, rlVars, cbVars, llm, scope, heap, req, tasks>>

LLMTick ==
    /\ now < scope.clock
    /\ now' = now + 1
    /\ UNCHANGED <<clsVars, rqVars, ttVars, cacheVars, rlVars, cbVars, llmVars>>

LLMNext ==
    \/ \E models \in scope.lists, q \in scope.questions, uc \in BOOLEAN :
          CallModelsParallel(models, q, uc)
    \/ \E i \in 1..MaxProviders : CallModelStart(i)
    \/ \E i \in 1..MaxProviders, p \in scope.payloads : AttemptSucceeds(i, p)
    \/ \E i \in 1..MaxProviders, kind \in scope.failures : AttemptFails(i, kind)
    \/ \E i \in 1..MaxProviders : SleepReturns(i)
    \/ \E i \in 1..MaxProviders : CallModelRaises(i)
    \/ GatherReturns
    \/ LLMTick

\* The global cache_manager; its default_ttl, settings.cache_ttl, is the
\* unit of the clock of the orchestrator specifications
LLMCacheInit ==
    /\ default_ttl = 1
    /\ cache = << >>
    /\ cacheObs = [set |-> << >>, get |-> None]

\* ------------------------------------- OptimizedTimeTravelService fan-out
api_semaphore_permits == 5

\* The TimeSnapshot returned for time point i after a successful completion
TimeSnapshot(i, content) ==
    [date_label |-> i, answer |-> <<"", content>>, tokens_used |-> 1]

\* The TimeSnapshot built by the except clause of generate_snapshot_parallel
\* (prefix "Unable to generate snapshot: ") and by generate_all_snapshots_parallel
\* from an exception (prefix "Error: ")
FailedSnapshot(i, prefix, msg) ==
    [date_label |-> i, answer |-> <<prefix, msg>>, tokens_used |-> 0]

\* A generate_snapshot_parallel coroutine: its position and what it
\* returned or raised
NewSnapshotTask == [pc |-> "start", out |-> None]

SnapshotReturned(snap) ==
    [pc |-> "done", out |-> Some([kind |-> "snapshot", snap |-> snap])]

\* generate_all_snapshots_parallel: one slot of the returned list
SnapshotSlot(i, out) ==
    IF out.kind = "exception" THEN FailedSnapshot(i, "Error: ", out.msg) ELSE out.snap

\* Breakers the shared client can hold when a time-travel request arrives:
\* new, closed one failure short of the threshold, open since this second
SnapshotBreakers ==
    {NewBreaker,
     [NewBreaker EXCEPT !.failure_count = failure_threshold - 1,
                        !.last_failure_time = Some(now)],
     [NewBreaker EXCEPT !.state = OPEN, !.failure_count = failure_threshold,
                        !.last_failure_time = Some(now)]}

\* One generate_all_snapshots_parallel over up to MaxPoints time points
SnapshotScope ==
    [lists |-> {}, rounds |-> 1, clock |-> 2, failures |-> {"timeout", "api_error"},
     payloads |-> Payloads, questions |-> {"q1"}, points |-> 1..MaxPoints]

TTInit ==
    /\ sem = api_semaphore_permits
    /\ snaps = << >>
    /\ tt = [points |-> None, order |-> << >>, results |-> None]

TTIdle ==
    /\ sem = api_semaphore_permits
    /\ snaps = << >>
    /\ tt = [points |-> None, order |-> << >>, results |-> None]

\* generate_all_snapshots_parallel(question, time_points, ...) with n time
\* points is entered: the coroutines are created and handed to asyncio.gather
GenerateAllSnapshotsParallel(n) ==
    /\ tt.points = None
    /\ tt' = [points |-> Some(n), order |-> << >>, results |-> None]
    /\ snaps' = [i \in 1..n |-> NewSnapshotTask]
    /\ UNCHANGED <<clsVars, rqVars, ttrVars, now, cacheVars, rlVars, cbVars, llmVars, sem>>

\* generate_snapshot_parallel from its entry to the upstream call: the
\* semaphore is acquired and chat_completion consults the breaker; a refused
\* call raises, the except clause returns a failed snapshot and the
\* semaphore is released.
SnapshotStart(i) ==
    LET ok == can_execute(cb, now) IN
    /\ i \in DOMAIN snaps /\ snaps[i].pc = "start"
    /\ sem > 0
    /\ cb' = state(cb, now)
    /\ sem' = IF ok THEN sem - 1 ELSE sem
    /\ snaps' = [snaps EXCEPT ![i] =
          IF ok THEN [@ EXCEPT !.pc = "net"]
          ELSE SnapshotReturned(FailedSnapshot(i, "Unable to generate snapshot: ",
                                               "Circuit breaker OPEN for OpenAI API"))]
    /\ tt' = [tt EXCEPT !.order = IF ok THEN @ ELSE Append(@, i)]
    /\ UNCHANGED <<clsVars, rqVars, ttrVars, now, cacheVars, rlVars, inflight, cbObs, llmVars>>

\* The upstream call returns: record_success(), the snapshot is returned and
\* the semaphore released
SnapshotSucceeds(i, content) ==
    /\ i \in DOMAIN snaps /\ snaps[i].pc = "net"
    /\ cb' = record_success(cb)
    /\ sem' = sem + 1
    /\ snaps' = [snaps EXCEPT ![i] = SnapshotReturned(TimeSnapshot(i, content))]
    /\ tt' = [tt EXCEPT !.order = Append(@, i)]
    /\ UNCHANGED <<clsVars, rqVars, ttrVars, now, cacheVars, rlVars, inflight, cbObs, llmVars>>

\* The upstream call raises or times out: record_failure(), the exception is
\* re-raised, the except clause returns a failed snapshot and the semaphore
\* is released
SnapshotFails(i, kind) ==
    /\ i \in DOMAIN snaps /\ snaps[i].pc = "net"
    /\ cb' = record_failure(cb, now)
    /\ sem' = sem + 1
    /\ snaps' = [snaps EXCEPT ![i] =
          SnapshotReturned(FailedSnapshot(i, "Unable to generate snapshot: ", kind))]
    /\ tt' = [tt EXCEPT !.order = Append(@, i)]
    /\ UNCHANGED <<clsVars, rqVars, ttrVars, now, cacheVars, rlVars, inflight, cbObs, llmVars>>

\* An exception escapes generate_snapshot_parallel before its try block
\* (lines 408-431 are not guarded); gather keeps it as the coroutine's result
SnapshotRaises(i) ==
    /\ i \in DOMAIN snaps /\ snaps[i].pc = "start"
    /\ snaps' = [snaps EXCEPT ![i] =
          [pc |-> "done", out |-> Some([kind |-> "exception", msg |-> "raised"])]]
    /\ tt' = [tt EXCEPT !.order = Append(@, i)]
    /\ UNCHANGED <<clsVars, rqVars, ttrVars, now, cacheVars, rlVars, cbVars, llmVars, sem>>

\* asyncio.gather returns and generate_all_snapshots_parallel builds its list
SnapshotsGathered ==
    LET n == tt.points[1]
        ord == GatherOrder(n, tt.order)
        g == gather([i \in 1..n |-> snaps[ord[i]].out[1]])
    IN
    /\ tt.points # None /\ tt.results = None
    /\ GatherReady(snaps)
    /\ tt' = [tt EXCEPT !.results =
                 Some([raised |-> g.raised,
                       list |-> [i \in DOMAIN g.results |-> SnapshotSlot(i, g.results[i])]])]
    /\ UNCHANGED <<clsVars, rqVars, ttrVars, now, cacheVars, rlVars, cbVars, llmVars, sem, snaps>>

TTNext ==
    \/ \E n \in scope.points : GenerateAllSnapshotsParallel(n)
    \/ \E i \in 1..MaxPoints : SnapshotStart(i)
    \/ \E i \in 1..MaxPoints, p \in scope.payloads : SnapshotSucceeds(i, p)
    \/ \E i \in 1..MaxPoints, kind \in scope.failures : SnapshotFails(i, kind)
    \/ \E i \in 1..MaxPoints : SnapshotRaises(i)
    \/ SnapshotsGathered

\* The two fan-outs share no state; a run makes one of them
FanInit ==
    \/ LLMInit(FanScope) /\ LLMCacheInit /\ CBIdle /\ TTIdle
    \/ /\ LLMInit(SnapshotScope) /\ llm.client /\ llm.cache_enabled
       /\ LLMCacheInit /\ TTInit
       /\ cb \in SnapshotBreakers /\ inflight = 0
       /\ cbObs = [tripped |-> None, call |-> None, probes |-> 0, record |-> None, run |-> 0]

FanNext == LLMNext \/ TTNext

\* Both services call the same upstream in one run: one call_model and one
\* generate_all_snapshots_parallel, beside a breaker in any of its states
UpstreamScope ==
    [lists |-> [1..1 -> {"gpt-4o"}], rounds |-> 1, clock |-> 2,
     failures |-> {"timeout"}, payloads |-> Payloads, questions |-> {"q1"},
     points |-> 1..MaxPoints]

UpstreamInit ==
    /\ LLMInit(UpstreamScope) /\ llm.client /\ llm.cache_enabled
    /\ LLMCacheInit /\ TTInit
    /\ cb \in SnapshotBreakers /\ inflight = 0
    /\ cbObs = [tripped |-> None, call |-> None, probes |-> 0, record |-> None, run |-> 0]

\* ------------------------------------------------ the request handlers
\* ModelConfig.get_available_models(): the ids a request may name
AvailableModels == {"gpt-4-turbo", "gpt-4o", "gpt-4o-mini"}

\* settings.synthesis_model
synthesis_model_setting == "gpt-5.2"

\* The fixed route of the fallback in route_and_answer
FullEnsemble == <<"gpt-4-turbo", "gpt-4o", "gpt-4o-mini">>

\* Lists of models a request can name: request.models, override_models
\* (the empty list stands for None and for [], both falsy)
ModelLists == UNION {[1..n -> AvailableModels] : n \in 0..MaxOverride}

\* What a ModelResponse of a fan-out can be, as far as the handlers read it:
\* failed, or successful with a text (possibly empty) and a cost
ResponseKinds ==
    {[success |-> FALSE, text |-> "", cost |-> 0],
     [success |-> TRUE, text |-> "", cost |-> 1],
     [success |-> TRUE, text |-> "text1", cost |-> 1],
     [success |-> TRUE, text |-> "text2", cost |-> 2]}

\* The lists call_models_parallel can return for the list `models`
ResponsesFor(models) ==
    {[i \in 1..Len(models) |->
        [model_name |-> models[i], success |-> ks[i].success,
         text |-> ks[i].text, cost |-> ks[i].cost]] :
     ks \in [1..Len(models) -> ResponseKinds]}

SeqContains(seq, x) == \E i \in DOMAIN seq : seq[i] = x

\* ModelConfig.COSTS: the input price of a model, in 1e-5 dollars per 1K tokens
COSTS ==
    [m \in {"gpt-4-turbo", "gpt-4o", "gpt-4o-mini", "gpt-5.2"} |->
        CASE m = "gpt-4-turbo" -> 1000
          [] m = "gpt-4o" -> 500
          [] m = "gpt-4o-mini" -> 15
          [] m = "gpt-5.2" -> 2000]

\* determine_execution_path: the models of a complexity tier
TierModels_ModerateAll(complexity) ==
    IF complexity = "simple" THEN <<"gpt-4o-mini">>
    ELSE <<"gpt-4-turbo", "gpt-4o", "gpt-4o-mini">>
TierModels(complexity) ==
    IF complexity = "simple" THEN <<"gpt-4o-mini">>
    ELSE IF complexity = "moderate" THEN <<"gpt-4o-mini", "gpt-4o">>
    ELSE <<"gpt-4-turbo", "gpt-4o", "gpt-4o-mini">>

\* determine_execution_path: the minimum number of models of a temporal query
min_models_for_temporal == 2

\* RouterService.determine_execution_path(classification, override_models,
\* force_synthesis, temporal_detection); complexity is classification.complexity,
\* force an optional boolean, temporal an optional detection result
determine_execution_path(complexity, override_models, force, temporal) ==
    LET overridden == override_models # << >>
        models0 == IF overridden THEN override_models
                   ELSE TierModels(complexity)
        use0 == IF overridden
                THEN (IF force # None THEN force[1] ELSE Len(models0) > 1)
                ELSE complexity = "complex"
        synth0 == IF use0 THEN Some(synthesis_model_setting) ELSE None
        is_temporal == temporal # None /\ temporal[1].is_temporal
        models == IF is_temporal /\ Len(models0) < min_models_for_temporal
                     /\ ~SeqContains(models0, "gpt-4o")
                  THEN Append(models0, "gpt-4o") ELSE models0
        use == IF force # None THEN force[1] ELSE use0
        synth == IF force # None /\ use /\ synth0 = None
                 THEN Some(synthesis_model_setting) ELSE synth0
    IN [models_to_use |-> models, use_synthesis |-> use, synthesis_model |-> synth,
        minimum_models_for_temporal |-> IF is_temporal THEN Some(min_models_for_temporal) ELSE None,
        add_web_search_recommendation |->
            is_temporal /\ temporal[1].requires_current_data]

\* `[r for r in model_responses if r.success]`
SuccessfulOf(responses) == SelectSeq(responses, LAMBDA r : r.success)

\* synthesize: `[r for r in model_responses if r.success and r.response_text]`
SynthesisInputs(responses) == SelectSeq(responses, LAMBDA r : r.success /\ r.text # "")

\* A SynthesisResult; the answer is the sequence of the pieces of text it is
\* put together from
SynthesisResult(answer, model, cost) == [answer |-> answer, model |-> model, cost |-> cost]

\* synthesize up to its await: the result it returns at once (no usable
\* response, or a single one), or None when the backing model is to be called
SynthesizeAtOnce_CallsAnyway(responses, model) == None
SynthesizeAtOnce_FirstResponse(responses, model) ==
    IF SynthesisInputs(responses) = << >>
    THEN Some(SynthesisResult(
             <<"Unable to synthesize: No successful model responses available.">>,
             model, 0))
    ELSE IF Len(SynthesisInputs(responses)) = 1
    THEN Some(SynthesisResult(
             <<"*Note: Only one model (", responses[1].model_name,
               ") provided a successful response.*\n\n", responses[1].text>>,
             responses[1].model_name, responses[1].cost))
    ELSE None
SynthesizeAtOnce(responses, model) ==
    LET ok == SynthesisInputs(responses) IN
    IF ok = << >>
    THEN Some(SynthesisResult(
             <<"Unable to synthesize: No successful model responses available.">>,
             model, 0))
    ELSE IF Len(ok) = 1
    THEN Some(SynthesisResult(
             <<"*Note: Only one model (", ok[1].model_name,
               ") provided a successful response.*\n\n", ok[1].text>>,
             ok[1].model_name, ok[1].cost))
    ELSE None

\* synthesize after a failure of its backing call (no client, time-out,
\* APIError, anything else): the except clauses
SynthesisFailure_Raises(kind, model) == [raised |-> TRUE, result |-> None]
SynthesisFailure(kind, model) ==
    [raised |-> FALSE,
     result |-> Some(SynthesisResult(<<"Synthesis failed: ", kind>>, model, 0))]

\* route_and_answer: the response whose text is the final answer when there
\* is no synthesis result (the loops over priority_order keep the last match)
BestResponse(successful) ==
    LET pick(best, m) ==
            IF \E i \in DOMAIN successful : successful[i].model_name = m
            THEN successful[CHOOSE i \in DOMAIN successful :
                     /\ successful[i].model_name = m
                     /\ \A j \in 1..(i - 1) : successful[j].model_name # m]
            ELSE best
    IN pick(pick(pick(successful[1], "gpt-4-turbo"), "gpt-4o"), "gpt-4o-mini")

\* route_and_answer: "Determine final answer"
FinalAnswer(synthesis, successful) ==
    IF synthesis # None THEN synthesis[1].answer
    ELSE IF successful # << >> THEN <<BestResponse(successful).text>>
    ELSE <<"Unable to generate a response. Please try again.">>

\* The decision after the fallback succeeded
FallbackDecision_KeepSynthesis(d) == [d EXCEPT !.models_to_use = FullEnsemble]
FallbackDecision(d) == [d EXCEPT !.models_to_use = FullEnsemble, !.use_synthesis = TRUE]

\* No request yet
NewRequest ==
    [path |-> "idle", pc |-> "idle", decision |-> None, models |-> << >>,
     responses |-> << >>, synth_input |-> << >>, synth_model |-> None,
     synth_calls |-> 0, fanouts |-> 0, fallback_used |-> FALSE,
     synthesis |-> None, outcome |-> None, inputs |-> None]

RqIdle == rq = NewRequest

\* The arguments determine_execution_path can be called with
Complexities == {"simple", "moderate", "complex"}
Forces == {None, Some(TRUE), Some(FALSE)}
Detections ==
    {None} \cup {Some(t) : t \in [is_temporal : BOOLEAN, requires_current_data : BOOLEAN]}
PathInputs ==
    [complexity : Complexities, override_models : ModelLists,
     force_synthesis : Forces, temporal : Detections]

PathInit == rq \in {[NewRequest EXCEPT !.inputs = Some(a)] : a \in PathInputs}

\* determine_execution_path is called with the arguments drawn
DetermineExecutionPath ==
    LET a == rq.inputs[1] IN
    /\ rq.pc = "idle"
    /\ rq.inputs # None
    /\ rq' = [rq EXCEPT !.pc = "decided",
                        !.decision = Some(determine_execution_path(
                            a.complexity, a.override_models, a.force_synthesis,
                            a.temporal))]
    /\ UNCHANGED <<now, cacheVars, rlVars, cbVars, llmVars, ttVars, clsVars>>

PathNext == DetermineExecutionPath

\* The handler returns an HTTP response with a body
Responds(r, body) ==
    [r EXCEPT !.pc = "done", !.outcome = Some([kind |-> "response", body |-> body])]

\* The handler raises; FastAPI answers with the status
Fails(r, status) ==
    [r EXCEPT !.pc = "done", !.outcome = Some([kind |-> "error", status |-> status])]

\* The handler's last stretch, once synthesize has returned, raised, or was
\* not called (synthesis: the SynthesisResult or None)
Finish(r, synthesis) ==
    LET u == [r EXCEPT !.synthesis = synthesis] IN
    IF r.path = "synthesize" THEN Responds(u, [synthesis |-> synthesis])
    ELSE IF r.path = "ensemble"
    THEN Responds(u, [model_responses |-> r.responses, synthesis |-> synthesis])
    ELSE Responds(u, [individual_responses |-> r.responses,
                      final_answer |-> FinalAnswer(synthesis, SuccessfulOf(r.responses)),
                      synthesis |-> synthesis,
                      routing_decision |-> r.decision[1],
                      fallback_used |-> r.fallback_used])

\* synthesize(question, responses, synthesis_model) is called: it returns at
\* once, or awaits the backing model
EnterSynthesize(r, responses, model) ==
    LET m == IF model = None THEN synthesis_model_setting ELSE model[1]
        at_once == SynthesizeAtOnce(responses, m)
    IN IF at_once # None
       THEN Finish([r EXCEPT !.synth_input = responses, !.synth_model = Some(m)], at_once)
       ELSE [r EXCEPT !.pc = "synth", !.synth_input = responses, !.synth_model = Some(m),
                      !.synth_calls = @ + 1]

\* The handler after call_models_parallel returned `responses`
AfterFanout(r, responses) ==
    LET u == [r EXCEPT !.responses = responses]
        successful == SuccessfulOf(responses)
    IN IF r.path = "ensemble"
       THEN (IF successful = << >> THEN Fails(u, 503)
             ELSE EnterSynthesize(u, responses, None))
       ELSE (IF r.decision[1].use_synthesis /\ Len(successful) > 1
             THEN EnterSynthesize(u, successful, r.decision[1].synthesis_model)
             ELSE Finish(u, None))

\* POST /api/ensemble with request.models (validated; empty: the default
\* models): call_models_parallel is awaited
EnsembleQuery(models) ==
    /\ rq.pc = "idle"
    /\ rq' = [rq EXCEPT !.path = "ensemble", !.pc = "fanout",
                        !.models = IF models # << >> THEN models ELSE FullEnsemble,
                        !.fanouts = 1]
    /\ UNCHANGED <<now, cacheVars, rlVars, cbVars, llmVars, ttVars, clsVars>>

\* route_and_answer, from the classification and the temporal detection it
\* obtained to the await of call_models_parallel on the chosen route
RouteAndAnswer(complexity, override_models, force, temporal) ==
    LET d == determine_execution_path(complexity, override_models, force, temporal) IN
    /\ rq.pc = "idle"
    /\ rq' = [rq EXCEPT !.path = "route", !.pc = "fanout", !.decision = Some(d),
                        !.models = d.models_to_use, !.fanouts = 1]
    /\ UNCHANGED <<now, cacheVars, rlVars, cbVars, llmVars, ttVars, clsVars>>

\* POST /api/synthesize with a list of responses and an optional
\* synthesis_model
SynthesizeResponses(responses, model) ==
    /\ rq.pc = "idle"
    /\ rq' = EnterSynthesize([rq EXCEPT !.path = "synthesize", !.responses = responses],
                             responses, model)
    /\ UNCHANGED <<now, cacheVars, rlVars, cbVars, llmVars, ttVars, clsVars>>

\* call_models_parallel returns its list
FanoutReturns(responses) ==
    /\ rq.pc = "fanout"
    /\ responses \in ResponsesFor(rq.models)
    /\ rq' = AfterFanout(rq, responses)
    /\ UNCHANGED <<now, cacheVars, rlVars, cbVars, llmVars, ttVars, clsVars>>

\* call_models_parallel (or the loop over its result) raises: ensemble_query
\* lets the exception through, route_and_answer awaits the fallback call
FanoutRaises ==
    /\ rq.pc = "fanout"
    /\ rq' = IF rq.path = "ensemble" THEN Fails(rq, 500)
             ELSE [rq EXCEPT !.pc = "fallback", !.fallback_used = TRUE,
                             !.models = FullEnsemble, !.fanouts = @ + 1]
    /\ UNCHANGED <<now, cacheVars, rlVars, cbVars, llmVars, ttVars, clsVars>>

\* The fallback call returns its list
FallbackReturns(responses) ==
    /\ rq.pc = "fallback"
    /\ responses \in ResponsesFor(FullEnsemble)
    /\ rq' = AfterFanout([rq EXCEPT !.decision = Some(FallbackDecision(@[1]))], responses)
    /\ UNCHANGED <<now, cacheVars, rlVars, cbVars, llmVars, ttVars, clsVars>>

\* The fallback call raises: the exception is re-raised
FallbackRaises ==
    /\ rq.pc = "fallback"
    /\ rq' = Fails(rq, 500)
    /\ UNCHANGED <<now, cacheVars, rlVars, cbVars, llmVars, ttVars, clsVars>>

\* The backing model of synthesize answers
SynthesisSucceeds(text) ==
    /\ rq.pc = "synth"
    /\ rq' = Finish(rq, Some(SynthesisResult(<<text>>, rq.synth_model[1], 1)))
    /\ UNCHANGED <<now, cacheVars, rlVars, cbVars, llmVars, ttVars, clsVars>>

\* The backing call of synthesize fails; an exception out of synthesize is
\* caught by route_and_answer (synthesis_result = None) and let through by
\* the two routes of ensemble.py
SynthesisFails(kind) ==
    LET f == SynthesisFailure(kind, rq.synth_model[1]) IN
    /\ rq.pc = "synth"
    /\ rq' = IF ~f.raised THEN Finish(rq, f.result)
             ELSE IF rq.path = "route" THEN Finish(rq, None)
             ELSE Fails(rq, 500)
    /\ UNCHANGED <<now, cacheVars, rlVars, cbVars, llmVars, ttVars, clsVars>>

RqNext ==
    \/ \E models \in ModelLists : EnsembleQuery(models)
    \/ \E complexity \in Complexities, override_models \in ModelLists,
          force \in Forces, temporal \in Detections :
          RouteAndAnswer(complexity, override_models, force, temporal)
    \/ \E models \in ModelLists : \E responses \in ResponsesFor(models) :
          \E model \in {None, Some("gpt-4o")} : SynthesizeResponses(responses, model)
    \/ \E responses \in ResponsesFor(rq.models) : FanoutReturns(responses)
    \/ FanoutRaises
    \/ \E responses \in ResponsesFor(FullEnsemble) : FallbackReturns(responses)
    \/ FallbackRaises
    \/ SynthesisSucceeds("synthesis1")
    \/ \E kind \in {"no_client", "timeout", "api_error", "unexpected"} : SynthesisFails(kind)

\* ---------------------------------------------- temporal detection
\* A question is a sequence of words; the words questions are made of
Words == {"capital", "latest", "Latest", "know", "recent", "2023", "2024", "2040"}

\* str.lower() on a word
Lower(w) == IF w = "Latest" THEN "latest" ELSE w

\* int(y) on the words that are numbers
YearOf == [w \in {"2023", "2024", "2040"} |->
              CASE w = "2023" -> 2023 [] w = "2024" -> 2024 [] w = "2040" -> 2040]

\* TemporalConfig.MODEL_KNOWLEDGE_CUTOFF, its year
knowledge_cutoff_year == 2023

\* datetime.now().year
current_year == 2026

\* TemporalConfig.TEMPORAL_KEYWORDS: a lower-cased word that one of the
\* patterns matches (the word patterns, \b202[4-9]\b and \b203\d\b)
MatchesKeyword(w) ==
    \/ w \in {"latest", "current", "now", "today", "recent", "recently", "newest",
              "breaking", "trending"}
    \/ w \in DOMAIN YearOf /\ YearOf[w] >= 2024 /\ YearOf[w] <= 2039

\* year_pattern \b(20[2-3]\d)\b: the years found in a question
DetectedYears(question) ==
    {YearOf[question[i]] : i \in {j \in DOMAIN question :
        /\ question[j] \in DOMAIN YearOf
        /\ YearOf[question[j]] >= 2020
        /\ YearOf[question[j]] <= 2039}}

\* `kw in question_lower` for the markers of requires_current_data: a
\* lower-cased word that has one of them as a substring ("know" has "now")
HasCurrentMarker(w) == w \in {"latest", "know", "2024"}

\* detect_temporal_query(question)
detect_temporal_query(question) ==
    LET lowered == [i \in DOMAIN question |-> Lower(question[i])]
        matched_keywords == {lowered[i] : i \in {j \in DOMAIN lowered :
                                 MatchesKeyword(lowered[j])}}
        detected_years == DetectedYears(question)
        is_temporal == \/ matched_keywords # {}
                       \/ \E y \in detected_years : y > knowledge_cutoff_year
    IN [is_temporal |-> is_temporal,
        requires_current_data |-> \E i \in DOMAIN lowered : HasCurrentMarker(lowered[i]),
        temporal_scope |->
            IF ~is_temporal THEN "evergreen"
            ELSE IF \E y \in detected_years : y > current_year THEN "future"
            ELSE IF detected_years # {}
                    /\ \A y \in detected_years : y <= knowledge_cutoff_year
            THEN "historical"
            ELSE "current",
        detected_keywords |-> matched_keywords,
        detected_years |-> detected_years]

\* The questions detect_temporal_query is called with
AllQuestions == UNION {[1..n -> Words] : n \in 0..MaxWords}

\* The locals of route_and_answer before the fan-out, before the call
NewPre ==
    [pc |-> "idle", question |-> << >>, enable_search |-> FALSE, detection |-> None,
     classification |-> None, source |-> "", classifier_calls |-> 0,
     fallback_used |-> FALSE, fallback_reason |-> None,
     was_search_used |-> FALSE, ui_warning_message |-> None,
     augmented |-> FALSE, search |-> None, sent |-> None, failed |-> None]

PreIdle == pre = NewPre /\ ccache = << >>

DetectInit ==
    /\ pre \in {[NewPre EXCEPT !.question = q] : q \in AllQuestions}
    /\ ccache = << >>

\* detect_temporal_query is called with the question drawn
DetectTemporalQuery ==
    /\ pre.pc = "idle"
    /\ pre.detection = None
    /\ pre' = [pre EXCEPT !.pc = "detected",
                          !.detection = Some(detect_temporal_query(pre.question))]
    /\ UNCHANGED <<now, cacheVars, rlVars, cbVars, llmVars, ttVars, rqVars, ccache>>

DetectNext == DetectTemporalQuery

\* ------------------------------------- classification and search steps
\* CLASSIFICATION_CACHE_TTL, in hours
CLASSIFICATION_CACHE_TTL == 24

\* RouterService._get_cache_key: the question lower-cased and stripped
get_cache_key(question) == [i \in DOMAIN question |-> Lower(question[i])]

\* RouterService._get_cached_classification at time t: the classification
\* returned (None on a miss) and the cache it leaves, the expired entry removed
get_cached_classification(cc, question, t) ==
    LET k == get_cache_key(question) IN
    IF k \notin DOMAIN cc THEN [hit |-> None, cache |-> cc]
    ELSE IF t - cc[k].timestamp < CLASSIFICATION_CACHE_TTL
    THEN [hit |-> Some(cc[k].classification), cache |-> cc]
    ELSE [hit |-> None, cache |-> [j \in DOMAIN cc \ {k} |-> cc[j]]]

\* RouterService._cache_classification at time t
cache_classification(cc, question, classification, t) ==
    [j \in DOMAIN cc \cup {get_cache_key(question)} |->
        IF j = get_cache_key(question)
        THEN [classification |-> classification, timestamp |-> t]
        ELSE cc[j]]

\* RouterService._default_classification()
default_classification_Simple ==
    [complexity |-> "simple", intent |-> "factual", domain |-> "general",
     requires_search |-> TRUE,
     reasoning |-> <<"Default classification due to classifier failure">>,
     temporal_scope |-> "evergreen"]
default_classification ==
    [complexity |-> "moderate", intent |-> "factual", domain |-> "general",
     requires_search |-> FALSE,
     reasoning |-> <<"Default classification due to classifier failure">>,
     temporal_scope |-> "evergreen"]

\* What the classifier model can answer, as far as classify_query reads it
ClassifierOutputs == [complexity : {"simple", "moderate", "complex"}, requires_search : BOOLEAN]

\* classify_query: the classification built from the parsed answer, with
\* the temporal overrides applied
ParsedClassification_NoOverride(out, hint) ==
    [complexity |-> out.complexity, intent |-> "analytical", domain |-> "technical",
     requires_search |-> out.requires_search, reasoning |-> <<"reasoning1">>,
     temporal_scope |-> hint.temporal_scope]
ParsedClassification(out, hint) ==
    [complexity |-> IF hint.is_temporal /\ out.complexity = "simple"
                    THEN "moderate" ELSE out.complexity,
     intent |-> "analytical", domain |-> "technical",
     requires_search |-> \/ out.requires_search
                         \/ hint.is_temporal /\ hint.requires_current_data,
     reasoning |-> IF hint.is_temporal
                   THEN <<"reasoning1", " [TEMPORAL OVERRIDE: ", "]">>
                   ELSE <<"reasoning1">>,
     temporal_scope |-> hint.temporal_scope]

\* classify_query: the cache after a classifier failure of the kind given
\* (the except clauses return the default and write nothing)
CacheAfterFailure_StoreDefault(cc, question, t) ==
    cache_classification(cc, question, default_classification, t)
CacheAfterFailure(cc, question, t) == cc

\* The questions route_and_answer is called with: in the classification
\* specification, in the search specification
ClsQuestions == {<<"capital">>, <<"latest">>, <<"Latest">>}
SearchQuestions == {<<"capital">>, <<"latest">>, <<"know">>}

\* The override_models and force_synthesis of these requests
PipelineOverrides == {<< >>, <<"gpt-4o">>}

\* What a search provider does when asked
SearchOutcomes == {"unconfigured", "found", "nothing", "raises"}

\* route_and_answer(question, enable_search): temporal detection, then
\* classify_query up to its await: a cache hit returns at once, a missing
\* client raises (route_and_answer takes the default classification and
\* marks the fallback), otherwise the classifier model is called
RouteBegin(question, enable_search) ==
    LET hint == detect_temporal_query(question)
        got == get_cached_classification(ccache, question, now)
        p == [pre EXCEPT !.question = question, !.enable_search = enable_search,
                         !.detection = Some(hint)]
    IN /\ pre.pc = "idle"
       /\ pre.detection = None
       /\ ccache' = got.cache
       /\ pre' = IF got.hit # None
                 THEN [p EXCEPT !.pc = "search", !.classification = got.hit,
                                !.source = "cache"]
                 ELSE IF ~llm.client
                 THEN [p EXCEPT !.pc = "search",
                                !.classification = Some(default_classification),
                                !.source = "default", !.fallback_used = TRUE,
                                !.fallback_reason = Some("Classification failed")]
                 ELSE [p EXCEPT !.pc = "classifying", !.classifier_calls = @ + 1]
       /\ UNCHANGED <<now, cacheVars, rlVars, cbVars, llmVars, ttVars, rqVars>>

\* The classifier model answers with JSON that parses: the classification
\* is built, overridden, cached and returned
ClassifierReturns(out) ==
    LET c == ParsedClassification(out, pre.detection[1]) IN
    /\ pre.pc = "classifying"
    /\ ccache' = cache_classification(ccache, pre.question, c, now)
    /\ pre' = [pre EXCEPT !.pc = "search", !.classification = Some(c),
                          !.source = "fresh"]
    /\ UNCHANGED <<now, cacheVars, rlVars, cbVars, llmVars, ttVars, rqVars>>

\* The classifier call fails: JSON that does not parse, a time-out, any
\* other exception (an unknown enum value among them)
ClassifierFails(kind) ==
    /\ pre.pc = "classifying"
    /\ ccache' = CacheAfterFailure(ccache, pre.question, now)
    /\ pre' = [pre EXCEPT !.pc = "search",
                          !.classification = Some(default_classification),
                          !.source = "default"]
    /\ UNCHANGED <<now, cacheVars, rlVars, cbVars, llmVars, ttVars, rqVars>>

\* ui_warning_message after step 2 of route_and_answer
SearchWarning_OnlyWhenUsed(required, perplexity_used, used) ==
    IF ~required THEN None
    ELSE IF perplexity_used THEN Some("Real-time web search used")
    ELSE IF used THEN Some("Web search was used to augment the response")
    ELSE None
SearchWarning(required, perplexity_used, used) ==
    IF ~required THEN None
    ELSE IF perplexity_used THEN Some("Real-time web search used")
    ELSE IF used THEN Some("Web search was used to augment the response")
    ELSE Some("may be more recent than the AI models' knowledge cutoff")

\* Step 2 of route_and_answer: Perplexity first, then the Tavily/Serper
\* service, when the detection requires current data and search is enabled
SearchDone(perplexity, fallback) ==
    LET required == pre.detection[1].requires_current_data /\ pre.enable_search
        perplexity_used == required /\ perplexity = "found"
        fallback_asked == required /\ ~perplexity_used /\ fallback # "unconfigured"
        used == perplexity_used \/ (fallback_asked /\ fallback = "found")
    IN /\ pre.pc = "search"
       /\ pre' = [pre EXCEPT
             !.pc = "route",
             !.search = IF ~required THEN None
                        ELSE Some([perplexity |-> perplexity,
                                   fallback |-> IF perplexity_used THEN "unasked"
                                                ELSE fallback]),
             !.was_search_used = used,
             !.augmented = used,
             !.ui_warning_message = SearchWarning(required, perplexity_used, used)]
       /\ UNCHANGED <<now, cacheVars, rlVars, cbVars, llmVars, ttVars, rqVars, ccache>>

\* Steps 3 and 4 of route_and_answer: the route is decided and
\* call_models_parallel is awaited with the question, augmented or not
RouteExecute(override_models, force) ==
    LET d == determine_execution_path(pre.classification[1].complexity, override_models,
                 force, Some([is_temporal |-> pre.detection[1].is_temporal,
                              requires_current_data |->
                                  pre.detection[1].requires_current_data]))
    IN /\ pre.pc = "route"
       /\ rq.pc = "idle"
       /\ rq' = [rq EXCEPT !.path = "route", !.pc = "fanout", !.decision = Some(d),
                           !.models = d.models_to_use, !.fanouts = 1]
       /\ pre' = [pre EXCEPT !.pc = "fanout",
                             !.sent = Some([models |-> d.models_to_use,
                                            augmented |-> pre.augmented])]
       /\ UNCHANGED <<now, cacheVars, rlVars, cbVars, llmVars, ttVars, ccache>>

\* The rest of route_and_answer runs (fan-out, synthesis, response): it
\* reads and writes nothing of the classification cache. pre.failed keeps,
\* for the next request, the key of a question whose classification was the
\* default
RequestEnds ==
    /\ pre.pc = "fanout"
    /\ pre' = [NewPre EXCEPT !.failed = IF pre.source = "default"
                                        THEN Some(get_cache_key(pre.question))
                                        ELSE None]
    /\ rq' = NewRequest
    /\ UNCHANGED <<now, cacheVars, rlVars, cbVars, llmVars, ttVars, ccache>>

\* Time passes between two requests
ClsTick ==
    /\ pre.pc = "idle"
    /\ now + 12 <= ClsMaxTime
    /\ now' = now + 12
    /\ UNCHANGED <<cacheVars, rlVars, cbVars, llmVars, ttVars, rqVars, clsVars>>

ClsInit ==
    /\ PreIdle
    /\ llm \in [client : BOOLEAN, cache_enabled : {FALSE}]
    /\ scope = None
    /\ heap = << >>
    /\ req = None
    /\ tasks = << >>
    /\ fan = [order |-> << >>, results |-> None, rounds |-> 0]

\* Requests one after the other, no search provider configured, no
\* override_models and no force_synthesis
ClsNext ==
    \/ \E question \in ClsQuestions, enable_search \in BOOLEAN :
          RouteBegin(question, enable_search)
    \/ \E out \in ClassifierOutputs : ClassifierReturns(out)
    \/ \E kind \in {"parse", "timeout", "error"} : ClassifierFails(kind)
    \/ SearchDone("unconfigured", "unconfigured")
    \/ RouteExecute(<< >>, None)
    \/ RequestEnds
    \/ ClsTick

\* One request, every behaviour of the search providers
SearchNext ==
    \/ \E question \in SearchQuestions, enable_search \in BOOLEAN :
          RouteBegin(question, enable_search)
    \/ \E out \in ClassifierOutputs : ClassifierReturns(out)
    \/ \E kind \in {"parse", "timeout", "error"} : ClassifierFails(kind)
    \/ \E perplexity \in SearchOutcomes, fallback \in SearchOutcomes :
          SearchDone(perplexity, fallback)
    \/ \E override_models \in PipelineOverrides, force \in Forces :
          RouteExecute(override_models, force)

\* --------------------------------------------------- time-travel requests
\* TimeTravelService (services/time_travel_service.py, used by the
\* /time-travel route), OptimizedTimeTravelService and
\* StreamingTimeTravelService answer one question at several points in time.
\* A question, as far as the lexical classifiers look at it: which pattern
\* sets match (high: a high pattern other than the year markers), the year it
\* mentions (0 for none), how many complexity patterns match, its word count
\* and topic
TtQuestion(timeless, high, medium, year, matches, words, topic) ==
    [timeless |-> timeless, high |-> high, medium |-> medium, mentioned_year |-> year,
     complex_matches |-> matches, word_count |-> words, topic |-> topic]

TtQuestions ==
    {TtQuestion(TRUE, TRUE, FALSE, 0, 1, 3, "general"),
     TtQuestion(FALSE, TRUE, FALSE, 0, 3, 9, "ai"),
     TtQuestion(FALSE, FALSE, TRUE, 0, 2, 16, "politics"),
     TtQuestion(FALSE, FALSE, FALSE, 2030, 0, 12, "general"),
     TtQuestion(FALSE, FALSE, FALSE, 0, 0, 4, "general")}

\* r'\b202[4-9]\b', r'\b203\d\b' among the high patterns and
\* r'\b(202[4-9]|203\d)\b' of the explicit year check
YearMarker(year) == year \in 2024..2039

classify_temporal_sensitivity(q) ==
    IF q.timeless THEN "none"
    ELSE IF q.high \/ YearMarker(q.mentioned_year) THEN "high"
    ELSE IF q.medium THEN "medium"
    ELSE IF YearMarker(q.mentioned_year) THEN "high"
    ELSE "low"

classify_question_complexity(q) ==
    IF q.complex_matches >= 3 \/ (q.complex_matches >= 2 /\ q.word_count > 15)
    THEN "complex"
    ELSE "moderate"

MODEL_ROUTING ==
    [simple |-> "gpt-4o-mini", moderate |-> "gpt-4o", complex |-> "gpt-4-turbo"]

get_model_for_complexity(complexity) == MODEL_ROUTING[complexity]

\* StreamingTimeTravelService.classify_complexity: (complexity, model)
classify_complexity(q) ==
    IF q.complex_matches >= 3 THEN <<"complex", "gpt-4o">> ELSE <<"moderate", "gpt-4o">>

\* The time points of a question, oldest first and ending today; a point is
\* named by its place in the canned timeline
identify_time_points(service, q) ==
    IF service = "standard" /\ q.topic \in {"ai", "politics", "sports", "market"}
    THEN <<1, 2, 3, 4, 5>>
    ELSE <<1, 2, 3, 4>>

\* The values Settings can hand to the time-travel services. Settings
\* (config.py) declares neither time_travel_enabled nor
\* time_travel_max_snapshots, so reading either from it raises AttributeError
\* (None); a Settings that declares them holds a flag and a maximum, the
\* maximum being at least 2 as TimeTravelRequest.max_snapshots (schemas.py)
\* requires of a maximum number of snapshots.
TimeTravelSettings ==
    {None} \cup
    {Some([time_travel_enabled |-> e, time_travel_max_snapshots |-> m]) :
        e \in BOOLEAN, m \in 2..MaxSnapshots}

Raised(error) == [raised |-> TRUE, error |-> error]
Kept(points) == [raised |-> FALSE, points |-> points]

\* "Limit to configured max snapshots": first, evenly spaced middle, last
LimitTimePoints_DropLast(time_points, max_snapshots) ==
    Kept(SubSeq(time_points, 1,
                IF Len(time_points) > max_snapshots THEN max_snapshots
                ELSE Len(time_points)))
LimitTimePoints(time_points, max_snapshots) ==
    IF Len(time_points) > max_snapshots
    THEN IF max_snapshots = 1
         THEN Raised("ZeroDivisionError")
         ELSE LET step == Len(time_points) \div (max_snapshots - 1) IN
              Kept(<<time_points[1]>>
                   \o [i \in 1..(max_snapshots - 2) |-> time_points[i * step + 1]]
                   \o <<time_points[Len(time_points)]>>)
    ELSE Kept(time_points)

\* Answers are sets of words (numbered); the texts a provider returns
TtAnswers == {1..6, 1..7, 1..5, {}}

\* The answer of a snapshot whose provider call failed
FailureAnswer(service, point) ==
    IF service = "standard" THEN {20, 21, 22, 30 + point}
    ELSE IF service = "optimized" THEN {20, 21, 22}
    ELSE {20, 21, 23}

Snapshot_NoModelOnFailure(point, answer, model, ok) ==
    [date_label |-> point, answer |-> answer,
     model_used |-> IF ok THEN model ELSE "", success |-> ok]
Snapshot(point, answer, model, ok) ==
    [date_label |-> point, answer |-> answer, model_used |-> model, success |-> ok]

\* similarity > 0.85 on the word sets of the first and the last answer
check_answers_identical(snapshots) ==
    IF Len(snapshots) < 2 THEN TRUE
    ELSE LET first_words == snapshots[1].answer
             last_words == snapshots[Len(snapshots)].answer
         IN IF first_words = {} \/ last_words = {} THEN TRUE
            ELSE 100 * Cardinality(first_words \cap last_words)
                    > 85 * Cardinality(first_words \cup last_words)

TT_CACHE_TTL == 24

\* generate_time_travel_answer / stream_time_travel: position and locals
NewTtRequest ==
    [pc |-> "idle", service |-> "standard", question |-> None, force |-> FALSE,
     sensitivity |-> None, complexity_calls |-> 0, model |-> None,
     identified |-> None, time_points |-> << >>, snapshots |-> << >>,
     provider_calls |-> 0, delta_calls |-> 0, narrative_calls |-> 0,
     identical |-> None, from_cache |-> FALSE, cached |-> FALSE, outcome |-> None]

IneligibleResult(sensitivity, skip_reason) ==
    [kind |-> "result", is_eligible |-> FALSE, temporal_sensitivity |-> sensitivity,
     skip_reason |-> Some(skip_reason), snapshots |-> << >>]

EligibleResult(sensitivity, snapshots) ==
    [kind |-> "result", is_eligible |-> TRUE, temporal_sensitivity |-> sensitivity,
     skip_reason |-> None, snapshots |-> snapshots]

\* The cache key: each service has a cache of its own, keyed by the question
TtCacheKey(service, question) == <<service, question>>

TtCacheHit(cc, key, t) ==
    key \in DOMAIN cc /\ t - cc[key].cached_at < TT_CACHE_TTL

TtCacheStore(cc, key, result, t) ==
    [k \in DOMAIN cc \cup {key} |->
        IF k = key THEN [result |-> result, cached_at |-> t] ELSE cc[k]]

\* The cache after the identical-answer return: nothing is written
TtCacheAfterIdentical_Store(cc, key, result, t) == TtCacheStore(cc, key, result, t)
TtCacheAfterIdentical(cc, key, result, t) == cc

\* No optimized request is in flight and no stream is open
StreamIdle ==
    /\ ttreqs = << >>
    /\ stream = None

TtIdle ==
    /\ ttr = NewTtRequest
    /\ ttcache = << >>
    /\ tts = None
    /\ StreamIdle

TtInit ==
    /\ ttr = NewTtRequest
    /\ ttcache = << >>
    /\ tts \in TimeTravelSettings
    /\ StreamIdle

\* The synchronous head of generate_time_travel_answer: cache lookup,
\* sensitivity, the two eligibility checks, the complexity classification and
\* the choice and capping of the time points
TtHead(service, question, force) ==
    LET sensitivity == classify_temporal_sensitivity(question)
        started == [NewTtRequest EXCEPT !.service = service, !.question = Some(question),
                                        !.force = force]
        classified == [started EXCEPT !.sensitivity = Some(sensitivity)]
        complexity == classify_question_complexity(question)
        points == identify_time_points(service, question)
        cache_key == TtCacheKey(service, question)
    IN
    IF TtCacheHit(ttcache, cache_key, now)
    THEN [started EXCEPT !.pc = "done", !.from_cache = TRUE,
                         !.outcome = Some(ttcache[cache_key].result)]
    ELSE IF tts = None
    THEN [classified EXCEPT !.pc = "done",
                            !.outcome = Some([kind |-> "raised", error |-> "AttributeError"])]
    ELSE IF ~tts[1].time_travel_enabled /\ ~force
    THEN [classified EXCEPT !.pc = "done",
            !.outcome = Some(IneligibleResult(sensitivity, "disabled"))]
    ELSE IF sensitivity \in {"low", "none"} /\ ~force
    THEN [classified EXCEPT !.pc = "done",
            !.outcome = Some(IneligibleResult(sensitivity, "not applicable"))]
    ELSE LET limited == LimitTimePoints(points, tts[1].time_travel_max_snapshots)
             routed == [classified EXCEPT !.complexity_calls = @ + 1,
                                          !.model = Some(get_model_for_complexity(complexity)),
                                          !.identified = Some(Len(points))]
         IN IF limited.raised
            THEN [routed EXCEPT !.pc = "done",
                    !.outcome = Some([kind |-> "raised", error |-> limited.error])]
            ELSE [routed EXCEPT !.pc = "snapshots", !.time_points = limited.points]

GenerateTimeTravelAnswer(service, question, force) ==
    /\ ttr.pc = "idle"
    /\ service \in {"standard", "optimized"}
    /\ ttr' = TtHead(service, question, force)
    /\ UNCHANGED <<now, cacheVars, rlVars, cbVars, llmVars, rqVars, clsVars, fanoutVars,
                   ttcache, tts, streamVars>>

\* stream_time_travel up to the creation of the snapshot tasks
StreamTimeTravel(question, force) ==
    LET cm == classify_complexity(question)
        points == identify_time_points("streaming", question)
    IN
    /\ ttr.pc = "idle"
    /\ ttr' = [NewTtRequest EXCEPT !.service = "streaming", !.question = Some(question),
                                   !.force = force, !.pc = "snapshots",
                                   !.complexity_calls = @ + 1, !.model = Some(cm[2]),
                                   !.identified = Some(Len(points)),
                                   !.time_points = points]
    /\ UNCHANGED <<now, cacheVars, rlVars, cbVars, llmVars, rqVars, clsVars, fanoutVars,
                   ttcache, tts, streamVars>>

\* The snapshot of the next time point returns with an answer: one provider
\* call; TimeTravelService.generate_snapshot also extracts the key changes
\* against the previous snapshot with a call of its own
SnapshotAnswered(answer) ==
    LET i == Len(ttr.snapshots) + 1 IN
    /\ ttr.pc = "snapshots" /\ i <= Len(ttr.time_points)
    /\ ttr' = [ttr EXCEPT
          !.snapshots = Append(@, Snapshot(ttr.time_points[i], answer, ttr.model[1], TRUE)),
          !.provider_calls = @ + 1,
          !.delta_calls = IF ttr.service = "standard" /\ i > 1 THEN @ + 1 ELSE @]
    /\ UNCHANGED <<now, cacheVars, rlVars, cbVars, llmVars, rqVars, clsVars, fanoutVars,
                   ttcache, tts, streamVars>>

\* The provider call of the next time point fails: the except clause builds
\* the snapshot
SnapshotErrored ==
    LET i == Len(ttr.snapshots) + 1 IN
    /\ ttr.pc = "snapshots" /\ i <= Len(ttr.time_points)
    /\ ttr' = [ttr EXCEPT
          !.snapshots = Append(@, Snapshot(ttr.time_points[i],
                                           FailureAnswer(ttr.service, ttr.time_points[i]),
                                           ttr.model[1], FALSE)),
          !.provider_calls = @ + 1]
    /\ UNCHANGED <<now, cacheVars, rlVars, cbVars, llmVars, rqVars, clsVars, fanoutVars,
                   ttcache, tts, streamVars>>

\* All snapshots are in: the identical-answer check of the two
\* generate_time_travel_answer; stream_time_travel has none
SnapshotsComplete ==
    LET identical == check_answers_identical(ttr.snapshots)
        result == IneligibleResult("low", "no temporal evolution")
    IN
    /\ ttr.pc = "snapshots" /\ Len(ttr.snapshots) = Len(ttr.time_points)
    /\ IF ttr.service = "streaming"
       THEN /\ ttr' = [ttr EXCEPT !.pc = "narrative"]
            /\ UNCHANGED ttcache
       ELSE IF identical
       THEN /\ ttr' = [ttr EXCEPT !.pc = "done", !.identical = Some(TRUE),
                                  !.outcome = Some(result)]
            /\ ttcache' = TtCacheAfterIdentical(ttcache, TtCacheKey(ttr.service, ttr.question[1]),
                                             result, now)
       ELSE /\ ttr' = [ttr EXCEPT !.identical = Some(FALSE),
                          !.pc = IF ttr.service = "optimized" THEN "key_changes"
                                 ELSE "narrative"]
            /\ UNCHANGED ttcache
    /\ UNCHANGED <<now, cacheVars, rlVars, cbVars, llmVars, rqVars, clsVars, fanoutVars, tts, streamVars>>

\* extract_all_key_changes_batch: one call whatever its outcome
KeyChangesExtracted ==
    /\ ttr.pc = "key_changes"
    /\ ttr' = [ttr EXCEPT !.pc = "narrative", !.delta_calls = @ + 1]
    /\ UNCHANGED <<now, cacheVars, rlVars, cbVars, llmVars, rqVars, clsVars, fanoutVars,
                   ttcache, tts, streamVars>>

\* generate_evolution_narrative / generate_narrative: one call whatever its
\* outcome; generate_time_travel_answer then builds and caches the result
NarrativeGenerated ==
    LET result == EligibleResult(ttr.sensitivity[1], ttr.snapshots) IN
    /\ ttr.pc = "narrative"
    /\ IF ttr.service = "streaming"
       THEN /\ ttr' = [ttr EXCEPT !.pc = "done", !.narrative_calls = @ + 1,
                          !.outcome = Some([kind |-> "stream", snapshots |-> ttr.snapshots])]
            /\ UNCHANGED ttcache
       ELSE /\ ttr' = [ttr EXCEPT !.pc = "done", !.narrative_calls = @ + 1,
                                  !.cached = TRUE, !.outcome = Some(result)]
            /\ ttcache' = TtCacheStore(ttcache, TtCacheKey(ttr.service, ttr.question[1]),
                                        result, now)
    /\ UNCHANGED <<now, cacheVars, rlVars, cbVars, llmVars, rqVars, clsVars, fanoutVars, tts, streamVars>>

\* The caller has the result; the service is ready for the next request
TtRequestEnds ==
    /\ ttr.pc = "done"
    /\ ttr' = NewTtRequest
    /\ UNCHANGED <<now, cacheVars, rlVars, cbVars, llmVars, rqVars, clsVars, fanoutVars,
                   ttcache, tts, streamVars>>

TtTick ==
    /\ ttr.pc = "idle"
    /\ now + 12 <= TtMaxTime
    /\ now' = now + 12
    /\ UNCHANGED <<cacheVars, rlVars, cbVars, llmVars, ttVars, rqVars, clsVars>>

\* One request to any of the three services, every behaviour of the provider
TtNext ==
    \/ \E service \in {"standard", "optimized"}, question \in TtQuestions, force \in BOOLEAN :
          GenerateTimeTravelAnswer(service, question, force)
    \/ \E question \in TtQuestions, force \in BOOLEAN : StreamTimeTravel(question, force)
    \/ \E answer \in TtAnswers : SnapshotAnswered(answer)
    \/ SnapshotErrored
    \/ SnapshotsComplete
    \/ KeyChangesExtracted
    \/ NarrativeGenerated

\* Requests one after the other to the service of the /time-travel route
\* about one of two questions, as the hours pass
TtCacheQuestions ==
    {TtQuestion(FALSE, TRUE, FALSE, 0, 3, 9, "ai"),
     TtQuestion(FALSE, FALSE, FALSE, 0, 0, 4, "general")}

TtCacheNext ==
    \/ \E question \in TtCacheQuestions, force \in BOOLEAN :
          GenerateTimeTravelAnswer("standard", question, force)
    \/ \E answer \in {1..6, 1..5} : SnapshotAnswered(answer)
    \/ SnapshotsComplete
    \/ NarrativeGenerated
    \/ TtRequestEnds
    \/ TtTick

\* The /check-temporal-sensitivity route classifies one question; the
\* questions are every combination of matching pattern sets with no year, a
\* year before the knowledge cutoff, a marker year and a year past the markers
SensitivityQuestions ==
    {TtQuestion(timeless, high, medium, year, matches, 4, topic) :
        timeless \in BOOLEAN, high \in BOOLEAN, medium \in BOOLEAN,
        year \in {0, 2023, 2030, 2040}, matches \in {0, 3}, topic \in {"general", "ai"}}

SensitivityInit ==
    /\ \E q \in SensitivityQuestions : ttr = [NewTtRequest EXCEPT !.question = Some(q)]
    /\ ttcache = << >>
    /\ tts = None
    /\ StreamIdle

CheckTemporalSensitivity ==
    LET q == ttr.question[1]
        sensitivity == classify_temporal_sensitivity(q)
    IN  /\ ttr.pc = "idle"
        /\ ttr.question # None
        /\ ttr' = [ttr EXCEPT !.pc = "done",
                              !.sensitivity = Some(sensitivity),
                              !.identified = Some(Len(identify_time_points("standard", q))),
                              !.outcome = Some([kind |-> "sensitivity",
                                                temporal_sensitivity |-> sensitivity,
                                                time_travel_eligible |->
                                                    sensitivity \in {"high", "medium"}])]
        /\ UNCHANGED <<now, cacheVars, rlVars, cbVars, llmVars, rqVars, clsVars,
                       fanoutVars, ttcache, tts, streamVars>>

SensitivityNext == CheckTemporalSensitivity

\* ------------------------------------------- concurrent outbound calls
\* Requests in flight at one of the two services that answer the time points
\* in parallel, each a module-level instance with a semaphore of its own:
\* optimized_time_travel_service (_api_semaphore, calls through the breaker
\* of OptimizedOpenAIClient) and streaming_time_travel_service (_semaphore,
\* calls the provider client directly). A request is counted by its
\* snapshot coroutines that wait for a permit and that hold one with the
\* call in flight, and by its own outbound call (key changes, narrative).
MaxTtRequests == 3

stream_semaphore_permits == 5

NewOutboundRequest == [pc |-> "idle", waiting |-> 0, calling |-> 0, call |-> FALSE]

OutboundInit ==
    /\ \E service \in {"optimized", "streaming"} :
          /\ ttreqs = [service |-> service, semaphore |-> stream_semaphore_permits,
                       reqs |-> [r \in 1..MaxTtRequests |-> NewOutboundRequest]]
          /\ IF service = "optimized" THEN tts \in TimeTravelSettings ELSE tts = None
    /\ ttr = NewTtRequest
    /\ ttcache = << >>
    /\ stream = None

\* Free permits of the semaphore of the service
FreePermits == IF ttreqs.service = "optimized" THEN sem ELSE ttreqs.semaphore

\* The requests become reqs and the semaphore of the service gains delta permits
SemaphoreStep(reqs, delta) ==
    IF ttreqs.service = "optimized"
    THEN /\ sem' = sem + delta
         /\ ttreqs' = [ttreqs EXCEPT !.reqs = reqs]
    ELSE /\ sem' = sem
         /\ ttreqs' = [ttreqs EXCEPT !.reqs = reqs, !.semaphore = @ + delta]

\* chat_completion refuses the call when the breaker does not admit it; the
\* streaming service has no breaker
CallAdmitted == ttreqs.service = "streaming" \/ can_execute(cb, now)

BreakerAfterCheck == IF ttreqs.service = "optimized" THEN state(cb, now) ELSE cb

BreakerAfterCall(ok) ==
    IF ttreqs.service = "optimized"
    THEN IF ok THEN record_success(cb) ELSE record_failure(cb, now)
    ELSE cb

\* The number of snapshot coroutines of a request: the time points, capped by
\* the configured maximum at the optimized service
SnapshotTasks ==
    LET points == identify_time_points(ttreqs.service, CHOOSE q \in TtQuestions : TRUE) IN
    IF ttreqs.service = "optimized"
    THEN Len(LimitTimePoints(points, tts[1].time_travel_max_snapshots).points)
    ELSE Len(points)

\* A request for an eligible (or forced) question arrives: the optimized
\* service reads settings.time_travel_enabled first, both create one
\* coroutine per time point
OutboundRequestArrives(r) ==
    /\ ttreqs.reqs[r].pc = "idle"
    /\ ttreqs' = [ttreqs EXCEPT !.reqs[r] =
          IF ttreqs.service = "optimized" /\ tts = None
          THEN [@ EXCEPT !.pc = "raised"]
          ELSE [@ EXCEPT !.pc = "snapshots", !.waiting = SnapshotTasks]]
    /\ UNCHANGED <<now, cacheVars, rlVars, cbVars, llmVars, rqVars, clsVars, fanoutVars,
                   ttr, ttcache, tts, stream>>

\* A snapshot coroutine enters `async with` the semaphore and makes its call;
\* a call the breaker refuses raises at once, the except clause returns the
\* failed snapshot and the permit is back
SnapshotAcquires(r) ==
    LET q == ttreqs.reqs[r] IN
    /\ q.pc = "snapshots" /\ q.waiting > 0
    /\ FreePermits > 0
    /\ IF CallAdmitted
       THEN SemaphoreStep([ttreqs.reqs EXCEPT ![r].waiting = @ - 1, ![r].calling = @ + 1], -1)
       ELSE /\ sem' = sem
            /\ ttreqs' = [ttreqs EXCEPT !.reqs[r].waiting = @ - 1]
    /\ cb' = BreakerAfterCheck
    /\ UNCHANGED <<now, cacheVars, rlVars, inflight, cbObs, llmVars, rqVars, clsVars,
                   snaps, tt, ttr, ttcache, tts, stream>>

\* The call of a snapshot coroutine returns or raises: the block of the
\* semaphore is left either way
SnapshotCallReturns(r, ok) ==
    LET q == ttreqs.reqs[r] IN
    /\ q.pc = "snapshots" /\ q.calling > 0
    /\ SemaphoreStep([ttreqs.reqs EXCEPT ![r].calling = @ - 1], 1)
    /\ cb' = BreakerAfterCall(ok)
    /\ UNCHANGED <<now, cacheVars, rlVars, inflight, cbObs, llmVars, rqVars, clsVars,
                   snaps, tt, ttr, ttcache, tts, stream>>

\* Every snapshot coroutine has returned: the optimized service returns when
\* the answers are identical and extracts the key changes otherwise, the
\* stream goes on to the narrative
SnapshotsCollected(r, identical) ==
    LET q == ttreqs.reqs[r] IN
    /\ q.pc = "snapshots" /\ q.waiting = 0 /\ q.calling = 0
    /\ ttreqs.service = "streaming" => ~identical
    /\ ttreqs' = [ttreqs EXCEPT !.reqs[r].pc =
          IF ttreqs.service = "streaming" THEN "narrative"
          ELSE IF identical THEN "done" ELSE "key_changes"]
    /\ UNCHANGED <<now, cacheVars, rlVars, cbVars, llmVars, rqVars, clsVars, fanoutVars,
                   ttr, ttcache, tts, stream>>

AfterFollowUp(pc) == IF pc = "key_changes" THEN "narrative" ELSE "done"

\* extract_all_key_changes_batch and generate_evolution_narrative (optimized),
\* generate_narrative (streaming) make their call; no semaphore is taken. A
\* refused call raises and the except clause of the step swallows it.
FollowUpCallStarts(r) ==
    LET q == ttreqs.reqs[r] IN
    /\ q.pc \in {"key_changes", "narrative"} /\ ~q.call
    /\ ttreqs' = [ttreqs EXCEPT !.reqs[r] =
          IF CallAdmitted THEN [@ EXCEPT !.call = TRUE]
          ELSE [@ EXCEPT !.pc = AfterFollowUp(q.pc)]]
    /\ cb' = BreakerAfterCheck
    /\ UNCHANGED <<now, cacheVars, rlVars, inflight, cbObs, llmVars, rqVars, clsVars,
                   fanoutVars, ttr, ttcache, tts, stream>>

FollowUpCallReturns(r, ok) ==
    LET q == ttreqs.reqs[r] IN
    /\ q.pc \in {"key_changes", "narrative"} /\ q.call
    /\ ttreqs' = [ttreqs EXCEPT !.reqs[r] = [@ EXCEPT !.call = FALSE,
                                                      !.pc = AfterFollowUp(q.pc)]]
    /\ cb' = BreakerAfterCall(ok)
    /\ UNCHANGED <<now, cacheVars, rlVars, inflight, cbObs, llmVars, rqVars, clsVars,
                   fanoutVars, ttr, ttcache, tts, stream>>

\* The request returns (or its exception reaches the caller)
OutboundRequestReturns(r) ==
    /\ ttreqs.reqs[r].pc \in {"done", "raised"}
    /\ ttreqs' = [ttreqs EXCEPT !.reqs[r] = NewOutboundRequest]
    /\ UNCHANGED <<now, cacheVars, rlVars, cbVars, llmVars, rqVars, clsVars, fanoutVars,
                   ttr, ttcache, tts, stream>>

OutboundNext ==
    \/ \E r \in 1..MaxTtRequests : OutboundRequestArrives(r)
    \/ \E r \in 1..MaxTtRequests : SnapshotAcquires(r)
    \/ \E r \in 1..MaxTtRequests, ok \in BOOLEAN : SnapshotCallReturns(r, ok)
    \/ \E r \in 1..MaxTtRequests, identical \in BOOLEAN : SnapshotsCollected(r, identical)
    \/ \E r \in 1..MaxTtRequests : FollowUpCallStarts(r)
    \/ \E r \in 1..MaxTtRequests, ok \in BOOLEAN : FollowUpCallReturns(r, ok)
    \/ \E r \in 1..MaxTtRequests : OutboundRequestReturns(r)

\* Calls to the provider in flight: those of the snapshot coroutines and
\* those of the requests themselves
RECURSIVE SnapshotCalls(_)
SnapshotCalls(n) == IF n = 0 THEN 0 ELSE ttreqs.reqs[n].calling + SnapshotCalls(n - 1)

RECURSIVE FollowUpCalls(_)
FollowUpCalls(n) ==
    IF n = 0 THEN 0 ELSE (IF ttreqs.reqs[n].call THEN 1 ELSE 0) + FollowUpCalls(n - 1)

OutboundCalls == SnapshotCalls(MaxTtRequests) + FollowUpCalls(MaxTtRequests)

\* ------------------------------------------------------ the event stream
\* POST /api/time-travel-stream: event_generator (routes/streaming.py) drives
\* StreamingTimeTravelService.stream_time_travel and turns every StreamEvent
\* into one server-sent event; `stream.events` are the events it has yielded.
\* A time point is its position in get_time_points, which lists the points by
\* date. generate_single_snapshot returns a dict on success and on failure, so
\* a snapshot task never raises and the except branch of the snapshot loop
\* (an error event with recoverable = True) is not reached.
MaxInsights == 2

\* get_time_points returns the same number of points for every question
StreamPoints == Len(identify_time_points("streaming", CHOOSE q \in TtQuestions : TRUE))

\* What generate_narrative returns, as far as the stream reads it: a list of
\* insights, or (the model answered "insights": null) the value None under
\* the key "insights"
NarrativeResults ==
    {[insights |-> Some(m)] : m \in 0..MaxInsights} \cup {[insights |-> None]}

StreamEvent(type, index, point) == [type |-> type, index |-> index, point |-> point]

NewStream ==
    [pc |-> "idle", connected |-> TRUE, tasks |-> << >>, completed |-> << >>,
     done |-> {}, waits |-> 0, collected_by |-> << >>, all_snapshots |-> << >>,
     completed_count |-> 0, events |-> << >>, narrative_calls |-> 0,
     narrative_input |-> None, narrative_result |-> None, insight |-> 0,
     payload |-> None, disconnected_at |-> None]

StreamInit ==
    /\ stream = NewStream
    /\ ttreqs = << >>
    /\ ttr = NewTtRequest
    /\ ttcache = << >>
    /\ tts = None

StreamUnchanged ==
    UNCHANGED <<now, cacheVars, rlVars, cbVars, llmVars, rqVars, clsVars, fanoutVars,
                ttr, ttcache, tts, ttreqs>>

\* all_snapshots.sort(key=lambda x: x["date"])
SortByDate_Unsorted(snapshots) == snapshots
SortByDate(snapshots) == SortSeq(snapshots, LAMBDA a, b : a < b)

\* What is yielded between the last snapshot event and the narrative call
NarrativePreamble_None == << >>
NarrativePreamble == <<StreamEvent("heartbeat", 0, 0)>>

\* The snapshot tasks after the generator was cancelled or closed: nothing
\* cancels them (asyncio.wait does not cancel the futures it waits for)
TasksAfterCancel_Cancelled(tasks_) ==
    [p \in DOMAIN tasks_ |-> IF tasks_[p] = "running" THEN "cancelled" ELSE tasks_[p]]
TasksAfterCancel(tasks_) == tasks_

\* The request arrives and the response starts: START is yielded
StreamOpens ==
    /\ stream.pc = "idle"
    /\ stream' = [stream EXCEPT !.pc = "classify",
                                !.events = Append(@, StreamEvent("start", 0, 0))]
    /\ StreamUnchanged

\* classify_complexity, get_time_points, CLASSIFICATION is yielded
YieldClassification ==
    /\ stream.pc = "classify"
    /\ stream' = [stream EXCEPT !.pc = "create",
          !.events = Append(@, StreamEvent("classification", StreamPoints, 0))]
    /\ StreamUnchanged

\* One task per time point is created; the generator enters the wait loop
CreateSnapshotTasks ==
    /\ stream.pc = "create"
    /\ stream' = [stream EXCEPT !.pc = "wait",
                                !.tasks = [p \in 1..StreamPoints |-> "running"]]
    /\ StreamUnchanged

\* generate_single_snapshot of time point p returns (an answer or the failure
\* dict), whatever the generator is doing
SnapshotTaskCompletes(p) ==
    /\ p \in DOMAIN stream.tasks /\ stream.tasks[p] = "running"
    /\ stream' = [stream EXCEPT !.tasks[p] = "done", !.completed = Append(@, p)]
    /\ StreamUnchanged

\* Tasks that completed and were not yet returned by asyncio.wait
Uncollected ==
    {p \in DOMAIN stream.tasks : stream.tasks[p] = "done"}
        \ (stream.done \cup {stream.all_snapshots[i] : i \in DOMAIN stream.all_snapshots})

\* asyncio.wait(pending_tasks, FIRST_COMPLETED) returns every task that is
\* done by now
WaitReturns ==
    /\ stream.pc = "wait" /\ stream.done = {}
    /\ Uncollected # {}
    /\ stream' = [stream EXCEPT !.done = Uncollected, !.waits = @ + 1]
    /\ StreamUnchanged

\* `for completed_task in done` (a set: the order is not defined): the result
\* is appended and its SNAPSHOT event yielded
YieldSnapshot(p) ==
    /\ stream.pc = "wait" /\ p \in stream.done
    /\ stream' = [stream EXCEPT
          !.done = @ \ {p},
          !.completed_count = @ + 1,
          !.all_snapshots = Append(@, p),
          !.collected_by = Append(@, stream.waits),
          !.events = Append(@, StreamEvent("snapshot", stream.completed_count + 1, p))]
    /\ StreamUnchanged

\* pending_tasks is empty: the snapshots are sorted by date and the
\* heartbeat is yielded
SnapshotLoopEnds ==
    /\ stream.pc = "wait" /\ stream.done = {}
    /\ Len(stream.all_snapshots) = StreamPoints
    /\ stream' = [stream EXCEPT !.pc = "narrative_call",
                                !.all_snapshots = SortByDate(@),
                                !.events = @ \o NarrativePreamble]
    /\ StreamUnchanged

\* generate_narrative(question, all_snapshots) is called
NarrativeCallStarts ==
    /\ stream.pc = "narrative_call"
    /\ stream' = [stream EXCEPT !.pc = "narrative_wait",
                                !.narrative_calls = @ + 1,
                                !.narrative_input = Some(stream.all_snapshots)]
    /\ StreamUnchanged

\* generate_narrative returns (it catches every exception of its call) and
\* NARRATIVE is yielded
YieldNarrative(result) ==
    /\ stream.pc = "narrative_wait"
    /\ stream' = [stream EXCEPT !.pc = "insights",
                                !.narrative_result = Some(result),
                                !.events = Append(@, StreamEvent("narrative", 0, 0))]
    /\ StreamUnchanged

\* enumerate(narrative_result.get("insights", [])) over None raises TypeError,
\* which leaves stream_time_travel; event_generator yields ERROR and ends
InsightsRaise ==
    /\ stream.pc = "insights"
    /\ stream.narrative_result[1].insights = None
    /\ stream' = [stream EXCEPT !.pc = "closed",
                                !.events = Append(@, StreamEvent("error", 0, 0))]
    /\ StreamUnchanged

YieldInsight ==
    /\ stream.pc = "insights"
    /\ stream.narrative_result[1].insights # None
    /\ stream.insight < stream.narrative_result[1].insights[1]
    /\ stream' = [stream EXCEPT !.insight = @ + 1,
                                !.events = Append(@, StreamEvent("insight", stream.insight + 1, 0))]
    /\ StreamUnchanged

YieldTiming ==
    /\ stream.pc = "insights"
    /\ stream.narrative_result[1].insights # None
    /\ stream.insight = stream.narrative_result[1].insights[1]
    /\ stream' = [stream EXCEPT !.pc = "complete",
                                !.events = Append(@, StreamEvent("timing", 0, 0))]
    /\ StreamUnchanged

\* COMPLETE carries all_snapshots
YieldComplete ==
    /\ stream.pc = "complete"
    /\ stream' = [stream EXCEPT !.pc = "finishing",
                                !.payload = Some(stream.all_snapshots),
                                !.events = Append(@, StreamEvent("complete", 0, 0))]
    /\ StreamUnchanged

\* After the sleep that follows COMPLETE both generators are exhausted
StreamEnds ==
    /\ stream.pc = "finishing"
    /\ stream' = [stream EXCEPT !.pc = "closed"]
    /\ StreamUnchanged

\* The generator is suspended in an await that no event precedes directly:
\* in asyncio.wait with nothing to return, or in the narrative call
StreamBlocked ==
    \/ stream.pc = "narrative_wait"
    \/ stream.pc = "wait" /\ stream.done = {} /\ Uncollected = {}
          /\ Len(stream.all_snapshots) < StreamPoints

\* The client disconnects. The response is cancelled while the generator is
\* in an await (asyncio.wait, the narrative call, the sleep after an event):
\* CancelledError leaves stream_time_travel, event_generator catches it and
\* yields ERROR. Or it is cancelled while the event just yielded is being
\* sent: the generator is closed where it stands.
ClientDisconnects(at) ==
    /\ stream.connected
    /\ stream.pc \notin {"idle", "closed"}
    /\ at = "yield" => ~StreamBlocked
    /\ stream' = [stream EXCEPT
          !.connected = FALSE,
          !.pc = "closed",
          !.done = {},
          !.tasks = TasksAfterCancel(@),
          !.disconnected_at = Some([events |-> Len(stream.events),
                                    narrative_calls |-> stream.narrative_calls,
                                    running |-> {p \in DOMAIN stream.tasks :
                                                    stream.tasks[p] = "running"}]),
          !.events = IF at = "await" THEN Append(@, StreamEvent("error", 0, 0)) ELSE @]
    /\ StreamUnchanged

GeneratorStep ==
    \/ StreamOpens
    \/ YieldClassification
    \/ CreateSnapshotTasks
    \/ WaitReturns
    \/ \E p \in 1..StreamPoints : YieldSnapshot(p)
    \/ SnapshotLoopEnds
    \/ NarrativeCallStarts
    \/ \E result \in NarrativeResults : YieldNarrative(result)
    \/ InsightsRaise
    \/ YieldInsight
    \/ YieldTiming
    \/ YieldComplete
    \/ StreamEnds

TaskStep == \E p \in 1..StreamPoints : SnapshotTaskCompletes(p)

StreamNext ==
    \/ GeneratorStep
    \/ TaskStep
    \/ \E at \in {"await", "yield"} : ClientDisconnects(at)

\* The event types yielded so far
EventTypes == [i \in DOMAIN stream.events |-> stream.events[i].type]

\* The time points of the snapshot events, in the order of the events
SnapshotEventPoints ==
    LET idx == {i \in DOMAIN stream.events : stream.events[i].type = "snapshot"}
        RECURSIVE Points(_)
        Points(n) == IF n = 0 THEN << >>
                     ELSE IF n \in idx THEN Append(Points(n - 1), stream.events[n].point)
                     ELSE Points(n - 1)
    IN Points(Len(stream.events))

\* ------------------------------------------------------ specifications
\* Each specification starts at time 1 with its own component as constructed
\* and the other components idle.
InitCache == now = 1 /\ CacheInit /\ RLIdle /\ CBIdle /\ LLMIdle /\ TTIdle /\ RqIdle /\ PreIdle /\ TtIdle
InitRL == now = 1 /\ RLInit /\ CacheIdle /\ CBIdle /\ LLMIdle /\ TTIdle /\ RqIdle /\ PreIdle /\ TtIdle
InitCB == now = 1 /\ CBInit /\ CacheIdle /\ RLIdle /\ LLMIdle /\ TTIdle /\ RqIdle /\ PreIdle /\ TtIdle
InitCall == now = 1 /\ LLMInit(CallScope) /\ LLMCacheInit /\ RLIdle /\ CBIdle /\ TTIdle /\ RqIdle /\ PreIdle /\ TtIdle
InitFan == now = 1 /\ RLIdle /\ FanInit /\ RqIdle /\ PreIdle /\ TtIdle
InitUpstream == now = 1 /\ RLIdle /\ UpstreamInit /\ RqIdle /\ PreIdle /\ TtIdle
InitPath ==
    now = 1 /\ PathInit /\ CacheIdle /\ RLIdle /\ CBIdle /\ LLMIdle /\ TTIdle /\ PreIdle /\ TtIdle
InitRequest ==
    now = 1 /\ RqIdle /\ CacheIdle /\ RLIdle /\ CBIdle /\ LLMIdle /\ TTIdle /\ PreIdle /\ TtIdle
InitClassify ==
    now = 1 /\ ClsInit /\ RqIdle /\ CacheIdle /\ RLIdle /\ CBIdle /\ TTIdle /\ TtIdle
InitTimeTravel ==
    now = 1 /\ TtInit /\ sem = api_semaphore_permits /\ snaps = << >>
    /\ tt = [points |-> None, order |-> << >>, results |-> None]
    /\ RqIdle /\ PreIdle /\ CacheIdle /\ RLIdle /\ CBIdle /\ LLMIdle
InitSensitivity ==
    now = 1 /\ SensitivityInit /\ sem = api_semaphore_permits /\ snaps = << >>
    /\ tt = [points |-> None, order |-> << >>, results |-> None]
    /\ RqIdle /\ PreIdle /\ CacheIdle /\ RLIdle /\ CBIdle /\ LLMIdle
InitOutbound ==
    now = 1 /\ OutboundInit /\ sem = api_semaphore_permits /\ snaps = << >>
    /\ tt = [points |-> None, order |-> << >>, results |-> None]
    /\ RqIdle /\ PreIdle /\ CacheIdle /\ RLIdle /\ CBIdle /\ LLMIdle
InitStream ==
    now = 1 /\ StreamInit /\ sem = api_semaphore_permits /\ snaps = << >>
    /\ tt = [points |-> None, order |-> << >>, results |-> None]
    /\ RqIdle /\ PreIdle /\ CacheIdle /\ RLIdle /\ CBIdle /\ LLMIdle
InitDetect ==
    now = 1 /\ DetectInit /\ RqIdle /\ CacheIdle /\ RLIdle /\ CBIdle /\ LLMIdle /\ TTIdle /\ TtIdle

SpecCache == InitCache /\ [][CacheNext]_vars
SpecRL == InitRL /\ [][RLNext]_vars
SpecRLOps == InitRL /\ [][RLOpsNext]_vars
SpecCB == InitCB /\ [][CBNext]_vars
SpecCall == InitCall /\ [][LLMNext]_vars
SpecFan == InitFan /\ [][FanNext]_vars
SpecUpstream == InitUpstream /\ [][FanNext]_vars
SpecRequest == InitRequest /\ [][RqNext]_vars
SpecPath == InitPath /\ [][PathNext]_vars
SpecDetect == InitDetect /\ [][DetectNext]_vars
SpecClassify == InitClassify /\ [][ClsNext]_vars
SpecSearch == InitClassify /\ [][SearchNext]_vars
SpecTimeTravel == InitTimeTravel /\ [][TtNext]_vars
SpecTtCache == InitTimeTravel /\ [][TtCacheNext]_vars
SpecSensitivity == InitSensitivity /\ [][SensitivityNext]_vars
SpecOutbound == InitOutbound /\ [][OutboundNext]_vars
SpecStream == InitStream /\ [][StreamNext]_vars
\* The event loop runs every task that can run and the response is pulled
\* while it lasts; a client need not disconnect
SpecStreamLive ==
    InitStream /\ [][StreamNext]_vars /\ WF_vars(GeneratorStep) /\ WF_vars(TaskStep)

\* ---------------------------------------------------------------- claims

\* C1: call_models_parallel returns exactly one ModelResponse per entry of
\* models, and the i-th result is the result of the call made for models[i],
\* whatever the order in which the calls completed.
C1_OrderedResults ==
    fan.results # None =>
        LET models == req[1].models
            list == fan.results[1].list
        IN /\ ~fan.results[1].raised
           /\ Len(list) = Len(models)
           /\ \A i \in 1..Len(models) :
                 /\ list[i].resp.model_name = models[i]
                 /\ tasks[i].out[1].kind = "response" =>
                       /\ list[i].resp = tasks[i].out[1].resp
                       /\ list[i].ref = tasks[i].out[1].ref

\* C1 witness: a list returned for MaxProviders different models whose calls
\* completed in the reverse order, the first failed and the second successful.
C1_Witness ==
    /\ fan.results # None
    /\ Len(req[1].models) = MaxProviders
    /\ req[1].models[1] # req[1].models[2]
    /\ fan.order[1] = MaxProviders
    /\ ~fan.results[1].list[1].resp.success
    /\ fan.results[1].list[2].resp.success

\* C2: in both fan-outs (call_models_parallel and generate_all_snapshots_parallel)
\* a task's failure, returned or raised, neither cancels the other tasks nor
\* keeps their results from being reported: the call returns a list, no
\* sooner than every task has finished, and each slot holds its own task's
\* outcome (a failed item for a task that raised, what the task returned
\* otherwise).
C2_FailureIsolation ==
    /\ fan.results # None =>
          /\ ~fan.results[1].raised
          /\ DOMAIN fan.results[1].list = DOMAIN tasks
          /\ \A i \in DOMAIN tasks :
                /\ tasks[i].pc = "done"
                /\ IF tasks[i].out[1].kind = "exception"
                   THEN /\ ~fan.results[1].list[i].resp.success
                        /\ fan.results[1].list[i].resp.error = Some(tasks[i].out[1].msg)
                   ELSE fan.results[1].list[i].resp = tasks[i].out[1].resp
    /\ tt.results # None =>
          /\ ~tt.results[1].raised
          /\ DOMAIN tt.results[1].list = DOMAIN snaps
          /\ \A i \in DOMAIN snaps :
                /\ snaps[i].pc = "done"
                /\ tt.results[1].list[i].date_label = i
                /\ IF snaps[i].out[1].kind = "exception"
                   THEN tt.results[1].list[i].answer = <<"Error: ", snaps[i].out[1].msg>>
                   ELSE tt.results[1].list[i] = snaps[i].out[1].snap

\* C2 witness (orchestrator): a list returned in which one call raised, one
\* call returned a success, and the success is reported.
C2_WitnessFan ==
    /\ fan.results # None
    /\ \E i, j \in DOMAIN tasks :
          /\ tasks[i].out[1].kind = "exception"
          /\ tasks[j].out[1].kind = "response"
          /\ fan.results[1].list[j].resp.success

\* C2 witness (snapshots): a list returned in which one snapshot failed at
\* the upstream, another succeeded after it, and the success is reported.
C2_WitnessSnapshots ==
    /\ tt.results # None
    /\ Len(tt.order) > 1
    /\ tt.results[1].list[tt.order[1]].tokens_used = 0
    /\ tt.results[1].list[tt.order[1]].answer[2] \in {"timeout", "api_error"}
    /\ \E j \in DOMAIN snaps : tt.results[1].list[j].tokens_used > 0

\* Will the next is_allowed call of client d, made now, be admitted?
NextAdmission(d) ==
    Admits(cleanup(RequestsOf(d), window_seconds, now), max_requests)

\* C11: an is_allowed, get_remaining, get_retry_after or reset call for one
\* client id leaves the recorded window of every other client id, and the
\* outcome of that client's next is_allowed call, as they were.
C11_ClientFrame ==
    [][\A c \in Clients :
          (is_allowed(c) \/ get_remaining(c) \/ get_retry_after(c) \/ reset(c)) =>
              \A d \in Clients \ {c} :
                  /\ (d \in DOMAIN clients') = (d \in DOMAIN clients)
                  /\ RequestsOf(d)' = RequestsOf(d)
                  /\ NextAdmission(d)' = NextAdmission(d)
                  /\ Remaining(d)' = Remaining(d)
                  /\ RetryAfter(d)' = RetryAfter(d)]_vars

\* C11 witness: client c1 was reset after it had been admitted, while c2
\* is at its limit and still is.
C11_Witness ==
    /\ rlObs.last # None
    /\ rlObs.last[1].client = "c1"
    /\ rlObs.last[1].result
    /\ "c1" \notin DOMAIN clients
    /\ ~NextAdmission("c2")

\* C12 (as claimed): every attempt of call_model and every chat_completion
\* call that reaches the network was admitted by the breaker of the
\* upstream (can_execute() was true when the attempt began), and a
\* chat_completion call refused by the breaker ends as a failed result of
\* its slot.
C12_BreakerConsulted ==
    [][/\ \A i \in (DOMAIN tasks) \cap (DOMAIN tasks') :
             tasks'[i].net > tasks[i].net => can_execute(cb, now)
       /\ \A i \in (DOMAIN snaps) \cap (DOMAIN snaps') :
             (snaps[i].pc = "start" /\ snaps'[i].pc = "net") => can_execute(cb, now)
       /\ \A i \in (DOMAIN snaps) \cap (DOMAIN snaps') :
             (snaps[i].pc = "start" /\ snaps'[i].pc = "done"
                 /\ snaps'[i].out[1].kind = "snapshot") =>
                 /\ ~can_execute(cb, now)
                 /\ snaps'[i].out[1].snap.tokens_used = 0]_vars

\* C3: once failure_threshold consecutive failures have opened the breaker,
\* every can_execute() call made within recovery_timeout of that failure
\* returns False, whatever in-flight calls record in the meantime.
C3_OpenRejects ==
    (cbObs.call # None /\ cbObs.call[1].cooling) => ~cbObs.call[1].result

\* C3 witness: a call refused during the cooldown, after an in-flight call
\* recorded its result on the open breaker.
C3_Witness ==
    /\ cbObs.call # None
    /\ cbObs.call[1].cooling
    /\ ~cbObs.call[1].result
    /\ cbObs.call[1].after # None
    /\ cbObs.call[1].after[1].before = OPEN

\* C4 (as claimed): a half-open breaker admits at most half_open_max_calls
\* probe calls before it returns to closed or open.
C4_ProbeBound == cbObs.probes <= half_open_max_calls

\* C5 (as claimed): on a half-open breaker half_open_max_calls consecutive
\* successes close the circuit, and any single recorded failure reopens it.
C5_SuccessesClose == cb.state = HALF_OPEN => cbObs.run < half_open_max_calls
C5_FailureReopens ==
    (cbObs.record # None /\ cbObs.record[1].op = "record_failure"
        /\ cbObs.record[1].before = HALF_OPEN) => cbObs.record[1].after = OPEN
C5_HalfOpen == C5_SuccessesClose /\ C5_FailureReopens

\* C6: a call_model coroutine makes at most max_retries attempts and none
\* after a successful one; when every attempt failed it returns a failed
\* MISS response that carries the message of the last failure; whatever the
\* attempts do, it returns a response and raises nothing.
C6_RetryBudget ==
    \A i \in DOMAIN tasks :
        LET t == tasks[i] IN
        /\ t.net <= max_retries
        /\ t.attempt < max_retries
        /\ t.pc \in {"net", "sleep"} => t.lastOut # Some("ok")
        /\ (t.pc = "done" /\ t.lastOut # None) =>
              /\ t.out[1].kind = "response"
              /\ t.out[1].resp.cache_status = "miss"
              /\ IF t.lastOut = Some("ok")
                 THEN t.out[1].resp.success
                 ELSE /\ ~t.out[1].resp.success
                      /\ t.attempt = max_retries - 1
                      /\ t.out[1].resp.payload = ""
                      /\ t.out[1].resp.error = Some(ErrorMessage(t.lastOut[1]))

\* C6 witness: a call that made all max_retries network attempts and
\* returned the failed response carrying the message of its last attempt's
\* time-out.
C6_Witness ==
    \E i \in DOMAIN tasks :
        /\ tasks[i].pc = "done"
        /\ tasks[i].net = max_retries
        /\ tasks[i].lastOut = Some("timeout")
        /\ tasks[i].out[1].kind = "response"
        /\ ~tasks[i].out[1].resp.success
        /\ tasks[i].out[1].resp.error = Some(ErrorMessage("timeout"))

\* C7 (as claimed): when the cache holds a live entry for the key of the
\* call, call_model returns the cached response with cache status HIT and
\* makes no network call.
C7_Original ==
    \A i \in DOMAIN tasks :
        (tasks[i].pc # "start" /\ tasks[i].seen # None) =>
            /\ tasks[i].pc = "done"
            /\ tasks[i].net = 0
            /\ tasks[i].out[1].kind = "response"
            /\ tasks[i].out[1].resp.cache_status = "hit"
            /\ tasks[i].out[1].resp.success
            /\ tasks[i].out[1].resp.payload = tasks[i].seen[1]

\* C7 (amended): when caching is in use for the call (use_cache is true and
\* settings.cache_enabled is true) and the cache holds a live entry for the
\* key of the call, call_model returns the cached response with cache status
\* HIT and makes no network call.
C7_CacheHit ==
    \A i \in DOMAIN tasks :
        (tasks[i].pc # "start" /\ tasks[i].seen # None
            /\ req[1].use_cache /\ llm.cache_enabled) =>
            /\ tasks[i].pc = "done"
            /\ tasks[i].net = 0
            /\ tasks[i].out[1].kind = "response"
            /\ tasks[i].out[1].resp.cache_status = "hit"
            /\ tasks[i].out[1].resp.success
            /\ tasks[i].out[1].resp.payload = tasks[i].seen[1]

\* C7 witness: a call answered from an entry stored default_ttl seconds
\* earlier, the last second of its life.
C7_Witness ==
    \E i \in DOMAIN tasks :
        /\ tasks[i].pc = "done"
        /\ tasks[i].seen # None
        /\ tasks[i].out[1].resp.cache_status = "hit"
        /\ tasks[i].net = 0
        /\ LET k == generate_key(req[1].models[i], req[1].question) IN
              k \in DOMAIN cache /\ now - cache[k].created_at = default_ttl

\* C8 (as claimed): call_model stores its response in the cache exactly when
\* it obtained a successful response from the network, before it returns;
\* a failed response is never stored.
C8_Original ==
    /\ \A i \in DOMAIN tasks :
          tasks[i].wrote <=>
              /\ tasks[i].pc = "done"
              /\ tasks[i].lastOut = Some("ok")
    /\ \A k \in DOMAIN cache : heap[cache[k].value].success

\* C8 (amended): call_model stores its response in the cache exactly when it
\* obtained a successful response from the network and caching is in use for
\* the call (use_cache and settings.cache_enabled), before it returns; a
\* failed response is never stored.
C8_CacheWrite ==
    /\ \A i \in DOMAIN tasks :
          tasks[i].wrote <=>
              /\ tasks[i].pc = "done"
              /\ tasks[i].lastOut = Some("ok")
              /\ req[1].use_cache /\ llm.cache_enabled
    /\ \A k \in DOMAIN cache : heap[cache[k].value].success

\* C8 witness: a call that failed twice, succeeded on its last attempt and
\* returned with its response stored under its key.
C8_Witness ==
    \E i \in DOMAIN tasks :
        /\ tasks[i].pc = "done"
        /\ tasks[i].wrote
        /\ tasks[i].net = max_retries
        /\ generate_key(req[1].models[i], req[1].question) \in DOMAIN cache

\* C9 (as claimed): after set(k, v, ttl), get(k) returns v until the time
\* since the set exceeds that ttl (the default when no ttl is passed); after
\* that get(k) returns None and removes the entry from the store.
C9_RoundTrip ==
    (cacheObs.get # None /\ cacheObs.get[1].set # None) =>
        LET g == cacheObs.get[1]
            s == g.set[1]
            ttl == IF s.ttl = None THEN default_ttl ELSE s.ttl[1]
        IN IF g.at - s.at > ttl
           THEN g.result = None /\ ~g.stored
           ELSE g.result = Some(s.value)

\* Admissions of client c that lie in the window ending at time t
InWindow(c, t) ==
    SelectSeq(rlObs.admitted[c], LAMBDA ts : ts > t - window_seconds)

\* C10: a call of is_allowed returns True exactly when fewer than
\* max_requests admitted calls of the client lie in the trailing window (so
\* the call after max_requests admissions is refused, and calls are admitted
\* again once the window has elapsed); the client's recorded window holds
\* the admitted calls only.
C10_Window ==
    rlObs.last # None =>
        LET l == rlObs.last[1]
            n == Len(InWindow(l.client, l.at))
        IN /\ l.result => n <= max_requests
           /\ ~l.result => n >= max_requests
           /\ clients[l.client] = InWindow(l.client, l.at)

\* C10 witness: a call refused in a later window, after the calls admitted
\* in an earlier window had elapsed and new calls were admitted.
C10_Witness ==
    /\ rlObs.last # None
    /\ ~rlObs.last[1].result
    /\ Len(rlObs.admitted[rlObs.last[1].client]) > max_requests

\* C13 (as claimed): a request whose fan-out returned no successful response
\* (every slot failed) ends as a hard failure with status 503, service
\* unavailable, and never as a normal answer response, on the ensemble
\* path and on the route-and-answer path.
C13_AllFailedIsHardFailure ==
    (/\ rq.path \in {"ensemble", "route"}
     /\ rq.pc = "done"
     /\ rq.responses # << >>
     /\ SuccessfulOf(rq.responses) = << >>)
    => (rq.outcome[1].kind = "error" /\ rq.outcome[1].status = 503)

\* C14: on the route-and-answer path the fan-out is executed at most twice
\* and the second execution is the fallback: it happens exactly when
\* fallback_used is marked, runs the fixed route gpt-4-turbo, gpt-4o,
\* gpt-4o-mini, and once it returned the decision names that route with
\* use_synthesis on and the response reports fallback_used; the request
\* ends in an error only when the fallback execution itself raised (the
\* fallback was entered and returned no list).
C14_FallbackOnce ==
    rq.path = "route" =>
        /\ rq.fanouts \in {1, 2}
        /\ rq.fallback_used <=> rq.fanouts = 2
        /\ rq.fallback_used => rq.models = <<"gpt-4-turbo", "gpt-4o", "gpt-4o-mini">>
        /\ (rq.fallback_used /\ rq.responses # << >>) =>
              /\ rq.decision[1].models_to_use = <<"gpt-4-turbo", "gpt-4o", "gpt-4o-mini">>
              /\ rq.decision[1].use_synthesis
              /\ Len(rq.responses) = 3
        /\ (rq.fallback_used /\ rq.pc = "done" /\ rq.outcome[1].kind = "response") =>
              /\ rq.outcome[1].body.fallback_used
              /\ rq.outcome[1].body.routing_decision.use_synthesis
              /\ rq.outcome[1].body.individual_responses = rq.responses
        /\ (rq.pc = "done" /\ rq.outcome[1].kind = "error") =>
              /\ rq.fallback_used
              /\ rq.responses = << >>

\* C14 witness: the chosen route raised, the fallback returned, its
\* responses were synthesized and the request was answered
C14_Witness ==
    /\ rq.path = "route"
    /\ rq.pc = "done"
    /\ rq.fallback_used
    /\ rq.outcome[1].kind = "response"
    /\ rq.synthesis # None
    /\ rq.synth_calls = 1

\* C15: whenever synthesize was called with a list holding no successful
\* response, it made no call of the backing model and returned (the request
\* is answered, nothing was raised) a result whose answer is the
\* no-successful-responses message and whose cost is zero.
C15_NoSuccessNoCall ==
    (rq.synth_model # None /\ SuccessfulOf(rq.synth_input) = << >>) =>
        /\ rq.synth_calls = 0
        /\ rq.pc = "done"
        /\ rq.outcome[1].kind = "response"
        /\ rq.synthesis # None
        /\ rq.synthesis[1].answer =
              <<"Unable to synthesize: No successful model responses available.">>
        /\ rq.synthesis[1].cost = 0
        /\ rq.outcome[1].body.synthesis = rq.synthesis

\* C15 witness: synthesize was called with two failed responses
C15_Witness ==
    /\ rq.synth_model # None
    /\ Len(rq.synth_input) = 2
    /\ \A i \in 1..2 : ~rq.synth_input[i].success
    /\ rq.pc = "done"
    /\ rq.synthesis # None

\* C16 (as claimed): whenever synthesize was called with a list holding
\* exactly one successful response, it made no call of the backing model and
\* returned a result whose answer is that response's text and nothing else,
\* at that response's cost.
C16_Original ==
    (rq.synth_model # None /\ Len(SuccessfulOf(rq.synth_input)) = 1) =>
        /\ rq.synth_calls = 0
        /\ rq.synthesis # None
        /\ rq.synthesis[1].answer = <<SuccessfulOf(rq.synth_input)[1].text>>
        /\ rq.synthesis[1].cost = SuccessfulOf(rq.synth_input)[1].cost

\* C16 (amended): whenever synthesize was called with a list holding exactly
\* one successful response, and that response has a non-empty text, it made
\* no call of the backing model and returned a result whose answer is the
\* single-source note naming the response's model followed by the response's
\* text verbatim, at that response's cost.
C16_SingleSource ==
    (/\ rq.synth_model # None
     /\ Len(SuccessfulOf(rq.synth_input)) = 1
     /\ SuccessfulOf(rq.synth_input)[1].text # "") =>
        /\ rq.synth_calls = 0
        /\ rq.pc = "done"
        /\ rq.synthesis # None
        /\ rq.synthesis[1].answer =
              <<"*Note: Only one model (", SuccessfulOf(rq.synth_input)[1].model_name,
                ") provided a successful response.*\n\n",
                SuccessfulOf(rq.synth_input)[1].text>>
        /\ rq.synthesis[1].cost = SuccessfulOf(rq.synth_input)[1].cost
        /\ rq.synthesis[1].model = SuccessfulOf(rq.synth_input)[1].model_name

\* C16 witness: synthesize was called with a failed response followed by a
\* successful one of text "text2", and returned
C16_Witness ==
    /\ rq.synth_model # None
    /\ Len(rq.synth_input) = 2
    /\ ~rq.synth_input[1].success
    /\ rq.synth_input[2].success
    /\ rq.synth_input[2].text = "text2"
    /\ rq.synthesis # None
    /\ rq.synth_calls = 0

\* C17: whenever the backing call of synthesize failed (no client, time-out,
\* API error, any other exception) on two or more successful responses,
\* synthesize returned a result (it did not raise) whose answer is a
\* "Synthesis failed" message at cost zero, and a route_and_answer request
\* is then answered with a response that carries the individual provider
\* responses.
C17_SynthesisFailureContained ==
    (/\ rq.synth_calls = 1
     /\ rq.pc = "done"
     /\ rq.synthesis # None => rq.synthesis[1].answer # <<"synthesis1">>) =>
        /\ Len(SuccessfulOf(rq.synth_input)) >= 2
        /\ rq.synthesis # None
        /\ Len(rq.synthesis[1].answer) = 2
        /\ rq.synthesis[1].answer[1] = "Synthesis failed: "
        /\ rq.synthesis[1].cost = 0
        /\ rq.outcome[1].kind = "response"
        /\ rq.outcome[1].body.synthesis = rq.synthesis
        /\ rq.path = "route" =>
              /\ rq.outcome[1].body.individual_responses = rq.responses
              /\ rq.outcome[1].body.final_answer = rq.synthesis[1].answer

\* C17 witness: a route_and_answer request whose synthesis call timed out
\* has been answered
C17_Witness ==
    /\ rq.path = "route"
    /\ rq.pc = "done"
    /\ rq.synth_calls = 1
    /\ rq.synthesis # None
    /\ rq.synthesis[1].answer = <<"Synthesis failed: ", "timeout">>
    /\ Len(rq.outcome[1].body.individual_responses) >= 2

\* C18 (as claimed): every decision determine_execution_path returns has a
\* non-empty model list, and when its use_synthesis is on its
\* synthesis_model is set and it names more than one model.
C18_SynthesisNeedsModels ==
    (rq.pc = "decided") =>
        /\ Len(rq.decision[1].models_to_use) > 0
        /\ rq.decision[1].use_synthesis =>
              /\ rq.decision[1].synthesis_model # None
              /\ Len(rq.decision[1].models_to_use) > 1

\* C19 (as claimed): for a temporal question the decision names at least
\* the temporal minimum of models, and every model selected before the
\* padding (the override, or the models of the complexity tier) is still in
\* the list, in its place.
C19_TemporalMinimum ==
    (/\ rq.pc = "decided"
     /\ rq.inputs[1].temporal # None
     /\ rq.inputs[1].temporal[1].is_temporal) =>
        /\ Len(rq.decision[1].models_to_use) >= min_models_for_temporal
        /\ LET before ==
                   determine_execution_path(rq.inputs[1].complexity,
                       rq.inputs[1].override_models, rq.inputs[1].force_synthesis,
                       None).models_to_use
           IN /\ Len(before) <= Len(rq.decision[1].models_to_use)
              /\ SubSeq(rq.decision[1].models_to_use, 1, Len(before)) = before

\* C20 (as claimed): when override_models is not empty, the decision's model
\* list is override_models, same members in the same order.
C20_OverrideExact ==
    (rq.pc = "decided" /\ rq.inputs[1].override_models # << >>) =>
        rq.decision[1].models_to_use = rq.inputs[1].override_models

\* C21: with no override_models, no force_synthesis and a question that is
\* not temporal, the decision names exactly the cheapest of the three routed
\* models without synthesis for simple, exactly the two cheapest without
\* synthesis for moderate, and all three with synthesis on and a synthesis
\* model set for complex.
C21_TierRouting ==
    (/\ rq.pc = "decided"
     /\ rq.inputs[1].override_models = << >>
     /\ rq.inputs[1].force_synthesis = None
     /\ (rq.inputs[1].temporal = None \/ ~rq.inputs[1].temporal[1].is_temporal)) =>
        LET d == rq.decision[1]
            chosen == {d.models_to_use[i] : i \in DOMAIN d.models_to_use}
            n == CASE rq.inputs[1].complexity = "simple" -> 1
                   [] rq.inputs[1].complexity = "moderate" -> 2
                   [] rq.inputs[1].complexity = "complex" -> 3
        IN /\ Cardinality(chosen) = n
           /\ Len(d.models_to_use) = n
           /\ chosen \subseteq AvailableModels
           /\ \A m \in chosen : \A o \in AvailableModels \ chosen : COSTS[m] < COSTS[o]
           /\ d.use_synthesis <=> rq.inputs[1].complexity = "complex"
           /\ d.use_synthesis => d.synthesis_model = <<"gpt-5.2">>
           /\ ~d.use_synthesis => d.synthesis_model = << >>

\* C21 witness: a moderate question without override, force or temporal
\* detection has been routed to two models
C21_Witness ==
    /\ rq.pc = "decided"
    /\ rq.inputs[1].complexity = "moderate"
    /\ rq.inputs[1].override_models = << >>
    /\ rq.inputs[1].force_synthesis = None
    /\ rq.inputs[1].temporal = None
    /\ rq.decision[1].models_to_use = <<"gpt-4o-mini", "gpt-4o">>

\* C25 (as claimed): for every question that has a word of the temporal
\* keyword set, or names a year later than the knowledge-cutoff year, the
\* detection returned by detect_temporal_query has is_temporal true.
C25_KeywordOrLaterYear ==
    (/\ pre.pc = "detected"
     /\ \E i \in DOMAIN pre.question :
           \/ Lower(pre.question[i]) \in
                 {"latest", "current", "now", "today", "recent", "recently",
                  "newest", "breaking", "trending"}
           \/ /\ pre.question[i] \in {"2023", "2024", "2040"}
              /\ YearOf[pre.question[i]] > knowledge_cutoff_year) =>
        pre.detection[1].is_temporal

\* C22: whenever classify_query has returned for a question whose temporal
\* detection has is_temporal true, the classification it returned is not of
\* complexity simple, be it freshly parsed, served from the classification
\* cache, or the default; and no classification cached under the key of
\* such a question is simple.
C22_TemporalNeverSimple ==
    /\ (pre.classification # None /\ pre.detection[1].is_temporal) =>
          pre.classification[1].complexity # "simple"
    /\ \A q \in {<<"capital">>, <<"latest">>, <<"Latest">>} :
          (detect_temporal_query(q).is_temporal /\ get_cache_key(q) \in DOMAIN ccache) =>
              ccache[get_cache_key(q)].classification.complexity # "simple"

\* C22 witness: the temporal question "Latest" was served, at a later
\* time, from the cache entry an earlier request for "latest" wrote
C22_Witness ==
    /\ pre.question = <<"Latest">>
    /\ pre.detection # None
    /\ pre.detection[1].is_temporal
    /\ pre.source = "cache"
    /\ pre.classification # None
    /\ pre.classification[1].reasoning = <<"reasoning1", " [TEMPORAL OVERRIDE: ", "]">>
    /\ now > ccache[<<"latest">>].timestamp

\* C23: no entry of the classification cache holds the default
\* classification (entries are what the classifier answered, in overridden
\* form), and a request for a question whose previous classify call failed
\* and returned the default (with a client configured) is not served from
\* the cache: the classifier model is called again.
C23_DefaultNotCached ==
    /\ \A k \in DOMAIN ccache :
          /\ ccache[k].classification # default_classification
          /\ ccache[k].classification.reasoning # default_classification.reasoning
          /\ \E out \in ClassifierOutputs :
                ccache[k].classification =
                    ParsedClassification(out, detect_temporal_query(k))
    /\ (/\ pre.pc # "idle"
        /\ llm.client
        /\ pre.failed = Some(get_cache_key(pre.question))) =>
          /\ pre.source # "cache"
          /\ pre.classifier_calls = 1

\* C23 witness: the previous request for "latest" got the default
\* classification and the next request, for "Latest", waits for the
\* classifier model
C23_Witness ==
    /\ pre.failed = Some(<<"latest">>)
    /\ pre.question = <<"Latest">>
    /\ pre.pc = "classifying"
    /\ pre.classifier_calls = 1
    /\ llm.client

C27_OneClassificationOneModel ==
    LET q == ttr.question[1]
        chosen == IF ttr.service = "streaming" THEN classify_complexity(q)[2]
                  ELSE get_model_for_complexity(classify_question_complexity(q))
    IN
    /\ ttr.complexity_calls <= 1
    /\ ttr.snapshots # << >> =>
          /\ ttr.complexity_calls = 1
          /\ \A i \in DOMAIN ttr.snapshots : ttr.snapshots[i].model_used = chosen
          /\ (ttr.service # "streaming" /\ classify_question_complexity(q) = "complex") =>
                \A i \in DOMAIN ttr.snapshots : ttr.snapshots[i].model_used = "gpt-4-turbo"
    /\ (ttr.outcome # None /\ ttr.outcome[1].kind # "raised") =>
          \A i, j \in DOMAIN ttr.outcome[1].snapshots :
             ttr.outcome[1].snapshots[i].model_used = ttr.outcome[1].snapshots[j].model_used

\* A streamed request about a complex question has finished with a timeline
\* in which one snapshot failed and another succeeded
C27_Witness ==
    /\ ttr.pc = "done" /\ ttr.service = "streaming"
    /\ classify_complexity(ttr.question[1])[1] = "complex"
    /\ ttr.outcome[1].kind = "stream"
    /\ \E i, j \in DOMAIN ttr.outcome[1].snapshots :
          /\ ~ttr.outcome[1].snapshots[i].success
          /\ ttr.outcome[1].snapshots[j].success

\* C28: generate_time_travel_answer on a question of low or none temporal
\* sensitivity without force_time_travel returns an ineligible result with a
\* skip reason and classifies no complexity, selects no time points and calls
\* no provider; with force_time_travel the rest of the pipeline runs.
C28_LowSkipsUnlessForced ==
    (/\ ttr.pc = "done" /\ ttr.service \in {"standard", "optimized"}
     /\ classify_temporal_sensitivity(ttr.question[1]) \in {"low", "none"}) =>
        IF ~ttr.force
        THEN /\ ttr.outcome[1].kind = "result"
             /\ ~ttr.outcome[1].is_eligible
             /\ ttr.outcome[1].skip_reason # None
             /\ ttr.complexity_calls = 0
             /\ ttr.identified = None
             /\ ttr.provider_calls = 0
        ELSE /\ ttr.complexity_calls = 1
             /\ ttr.identified # None
             /\ ttr.provider_calls = Len(ttr.time_points)

ExpectedTypes(n, m) ==
    <<"start", "classification">> \o [i \in 1..n |-> "snapshot"]
        \o <<"heartbeat", "narrative">> \o [i \in 1..m |-> "insight"]
        \o <<"timing", "complete">>

TypesWithoutHeartbeat(n, m) ==
    <<"start", "classification">> \o [i \in 1..n |-> "snapshot"]
        \o <<"narrative">> \o [i \in 1..m |-> "insight"]
        \o <<"timing", "complete">>

IsPrefix(s, t) == Len(s) <= Len(t) /\ s = SubSeq(t, 1, Len(s))

EndsWithError == Len(stream.events) > 0 /\ stream.events[Len(stream.events)].type = "error"

\* The events before the final error event, if there is one
EventsBeforeError ==
    IF EndsWithError THEN SubSeq(EventTypes, 1, Len(EventTypes) - 1) ELSE EventTypes

TerminalEvents ==
    {i \in DOMAIN stream.events : stream.events[i].type \in {"complete", "error"}}

PositionIn(seq, x) == CHOOSE i \in DOMAIN seq : seq[i] = x

Chronological(points) ==
    /\ Len(points) = StreamPoints
    /\ \A i \in DOMAIN points : points[i] = i

\* The indices of the snapshot events, in the order of the events
SnapshotEventIndices ==
    LET RECURSIVE Indices(_)
        Indices(n) == IF n = 0 THEN << >>
                      ELSE IF stream.events[n].type = "snapshot"
                           THEN Append(Indices(n - 1), stream.events[n].index)
                           ELSE Indices(n - 1)
    IN Indices(Len(stream.events))

RunningAtDisconnect ==
    IF stream.disconnected_at = None THEN {} ELSE stream.disconnected_at[1].running

PipelineEventTypes ==
    {"classification", "snapshot", "heartbeat", "narrative", "insight", "timing", "complete"}

\* C36: after the client has disconnected the stream starts no narrative call
\* and produces no further pipeline event, while the snapshot tasks that were
\* running at the disconnection are not cancelled and run to completion.
C36_DisconnectCancelsStreamOnly ==
    /\ [](stream.disconnected_at # None =>
            LET d == stream.disconnected_at[1] IN
            /\ stream.narrative_calls = d.narrative_calls
            /\ \A i \in DOMAIN stream.events :
                  i > d.events => stream.events[i].type \notin PipelineEventTypes
            /\ \A p \in d.running : stream.tasks[p] \in {"running", "done"})
    /\ (stream.disconnected_at # None) ~>
          (\A p \in RunningAtDisconnect : stream.tasks[p] = "done")

\* The client disconnected while snapshot tasks were running and before the
\* narrative call; the tasks have completed since
C36_Witness ==
    /\ stream.disconnected_at # None
    /\ Cardinality(stream.disconnected_at[1].running) >= 2
    /\ \A p \in stream.disconnected_at[1].running : stream.tasks[p] = "done"
    /\ Len(stream.completed) = StreamPoints
    /\ stream.narrative_calls = 0

\* The successful response of the first model of the order gpt-4-turbo,
\* gpt-4o, gpt-4o-mini that has one, else the first successful response
HighestPriorityResponse(successful) ==
    LET has(m) == \E i \in DOMAIN successful : successful[i].model_name = m
        first(m) == successful[CHOOSE i \in DOMAIN successful :
                        /\ successful[i].model_name = m
                        /\ \A j \in 1..(i - 1) : successful[j].model_name # m]
    IN IF has("gpt-4-turbo") THEN first("gpt-4-turbo")
       ELSE IF has("gpt-4o") THEN first("gpt-4o")
       ELSE IF has("gpt-4o-mini") THEN first("gpt-4o-mini")
       ELSE successful[1]

\* C37: when route_and_answer has no synthesis result and at least one
\* provider succeeded, its final answer is the text of the successful response
\* of the highest-priority model in the order gpt-4-turbo, gpt-4o,
\* gpt-4o-mini (the first successful response if none of them succeeded).
C37_FinalAnswerOfHighestPriority ==
    (/\ rq.path = "route" /\ rq.pc = "done"
     /\ rq.outcome # None /\ rq.outcome[1].kind = "response"
     /\ rq.synthesis = None
     /\ SuccessfulOf(rq.responses) # << >>) =>
        rq.outcome[1].body.final_answer
            = <<HighestPriorityResponse(SuccessfulOf(rq.responses)).text>>

\* C38: the stream generates snapshots if and only if the non-streaming engine
\* would (the question is of high or medium sensitivity, or the request is
\* forced); a low/none-sensitivity question with force = false produces no
\* snapshot.
C38_StreamSkipsLikeEngine ==
    (ttr.service = "streaming" /\ ttr.pc # "idle") =>
        LET sensitivity == classify_temporal_sensitivity(ttr.question[1])
            generates == ttr.time_points # << >> \/ ttr.provider_calls > 0
        IN generates <=> (ttr.force \/ sensitivity \in {"high", "medium"})

C40_ReturnedResponseNeverModified ==
    [][\A id \in DOMAIN heap : id \in DOMAIN heap' => heap'[id] = heap[id]]_vars

====
